---- MODULE Spec2Model ----
(***************************************************************************)
(* A model of the WACC code generator (codegen.go): the per-procedure      *)
(* register allocator / scope manager, the statement and expression        *)
(* lowering rules, the shared string and helper pools, and the concurrent  *)
(* program driver AST.CodeGen.                                             *)
(***************************************************************************)
EXTENDS Integers, Sequences, FiniteSets, TLC

(***************************************************************************)
(* Bounds of the model.                                                    *)
(***************************************************************************)
\* label suffixes one procedure may draw (block, if, while statements)
MaxLabels == 1
\* local variables one procedure body may declare
MaxVars == 1
\* registers a body may leave held (the usage counters summed)
MaxHeld == 9

(***************************************************************************)
(* Instruction model.  An instruction is a record: op (mnemonic), cond     *)
(* (condition suffix), r (register operands, destination first), n (an     *)
(* immediate or offset) and l (a label or symbol).                         *)
(***************************************************************************)
Ins(op, cond, r, n, l) == [op |-> op, cond |-> cond, r |-> r, n |-> n, l |-> l]

RegName(n) == "r" \o ToString(n)

PUSH(rs)              == Ins("PUSH", "", rs, 0, "")
POP(rs)               == Ins("POP", "", rs, 0, "")
LABEL(id)             == Ins("LABEL", "", <<>>, 0, id)
MOV(dest, src)        == Ins("MOV", "", <<dest, src>>, 0, "")
MOVI(cond, dest, n)   == Ins("MOV", cond, <<dest>>, n, "")
ADDI(dest, lhs, n)    == Ins("ADD", "", <<dest, lhs>>, n, "")
SUBI(dest, lhs, n)    == Ins("SUB", "", <<dest, lhs>>, n, "")
ADDR(dest, lhs, rhs)  == Ins("ADD", "", <<dest, lhs, rhs>>, 0, "")
SUBR(dest, lhs, rhs)  == Ins("SUB", "", <<dest, lhs, rhs>>, 0, "")
ADDLSL(dest, lhs, rhs, n) == Ins("ADDLSL", "", <<dest, lhs, rhs>>, n, "")
ANDR(dest, lhs, rhs)  == Ins("AND", "", <<dest, lhs, rhs>>, 0, "")
ORRR(dest, lhs, rhs)  == Ins("ORR", "", <<dest, lhs, rhs>>, 0, "")
NOTI(dest, arg)       == Ins("EOR", "", <<dest, arg>>, 1, "")
NEG(dest, arg)        == Ins("NEG", "", <<dest, arg>>, 0, "")
SMULL(lo, hi, rm, rs) == Ins("SMULL", "", <<lo, hi, rm, rs>>, 0, "")
CMPI(lhs, n)          == Ins("CMP", "", <<lhs>>, n, "")
CMPR(lhs, rhs)        == Ins("CMP", "", <<lhs, rhs>>, 0, "")
CMPASR(lhs, rhs, n)   == Ins("CMPASR", "", <<lhs, rhs>>, n, "")
B(cond, l)            == Ins("B", cond, <<>>, 0, l)
BL(cond, l)           == Ins("BL", cond, <<>>, 0, l)
\* LDR reg, [base, #n]
LDRM(reg, base, n)    == Ins("LDR", "", <<reg, base>>, n, "")
\* LDR reg, =n
LDRC(reg, n)          == Ins("LDRC", "", <<reg>>, n, "")
\* LDR<cond> reg, =label
LDRL(cond, reg, l)    == Ins("LDRL", cond, <<reg>>, 0, l)
\* STR reg, [base, #n]
STRM(reg, base, n)    == Ins("STR", "", <<reg, base>>, n, "")
LTORG                 == Ins("LTORG", "", <<>>, 0, "")

(***************************************************************************)
(* Pool operations a lowering rule performs between two emitted            *)
(* instructions.  They sit in the output of a rule in program order: the   *)
(* goroutine running the rule performs them when it reaches them.  A       *)
(* lookup stores the label it is given in the local slot n; an LDRL whose  *)
(* label is Slot(n) loads that label.                                      *)
(***************************************************************************)
Lookup8Op(n, s)  == Ins("Lookup8", "", <<>>, n, s)
\* s is the literal character by character
Lookup32Op(n, s) == Ins("Lookup32", "", s, n, "")
FsAddOp(h)       == Ins("FsAdd", "", <<>>, 0, h)
Slot(n)          == "$" \o ToString(n)

PoolOps == {"Lookup8", "Lookup32", "FsAdd"}
IsInstr(i) == i.op \notin PoolOps

(***************************************************************************)
(* RegAllocator.  A lowering context c is the allocator (regs, usage,      *)
(* stackSize, stack, labelCounter, fname), the instructions sent so far    *)
(* (out), the stackSize and the usage counts at each of them (ss, us) and   *)
(* whether the lowering has panicked.                                      *)
(***************************************************************************)
GenRegs == 4..11

EmptyScope == [v \in {} |-> 0]

CreateRegAllocator ==
    [regs |-> <<4, 5, 6, 7, 8, 9, 10, 11>>,
     usage |-> [r \in 0..11 |-> 0],
     stackSize |-> 0,
     stack |-> <<>>,
     labelCounter |-> 0,
     fname |-> ""]

\* the number of registers handed out and not given back
HeldRegs(usage) ==
    usage[4] + usage[5] + usage[6] + usage[7] + usage[8] + usage[9]
        + usage[10] + usage[11]

\* the allocator a with what is sent while it is used (out, with the
\* stackSize at each send in ss), the greatest number of registers held at
\* once (peak), and whether lowering was aborted (panic)
Ctx(a) == [regs |-> a.regs, usage |-> a.usage, stackSize |-> a.stackSize,
           stack |-> a.stack, labelCounter |-> a.labelCounter,
           fname |-> a.fname, out |-> <<>>, ss |-> <<>>, us |-> <<>>,
           panic |-> FALSE,
           peak |-> HeldRegs(a.usage)]

AllocOf(c) == [regs |-> c.regs, usage |-> c.usage, stackSize |-> c.stackSize,
               stack |-> c.stack, labelCounter |-> c.labelCounter,
               fname |-> c.fname]

\* insch <- instr
Emit(c, i) ==
    IF c.panic THEN c
    ELSE [c EXCEPT !.out = Append(@, i), !.ss = Append(@, c.stackSize),
                   !.us = Append(@, c.usage)]

\* insch <- i1; insch <- i2; ... with no allocator call in between
EmitAll(c, is) ==
    IF c.panic THEN c
    ELSE [c EXCEPT !.out = @ \o is,
                   !.ss = @ \o [k \in 1..Len(is) |-> c.stackSize],
                   !.us = @ \o [k \in 1..Len(is) |-> c.usage]]

PushStack(c, size) == IF c.panic THEN c ELSE [c EXCEPT !.stackSize = @ + size]

PopStack(c, size) == IF c.panic THEN c ELSE [c EXCEPT !.stackSize = @ - size]

\* the register GetReg returns
NextReg(c) == Head(c.regs)

\* the register is counted and stays at the front
GetRegKeep(c) == [c EXCEPT !.usage[Head(c.regs)] = @ + 1]

\* the end of GetReg: the register is counted and moved to the back
GetRegTake(c) ==
    [c EXCEPT !.usage[Head(c.regs)] = @ + 1,
              !.regs = Append(Tail(c.regs), Head(c.regs)),
              !.peak = IF HeldRegs(c.usage) + 1 > @
                       THEN HeldRegs(c.usage) + 1 ELSE @]

GetReg(c) ==
    IF c.panic THEN c
    ELSE GetRegTake(IF c.usage[Head(c.regs)] > 0
                    THEN PushStack(Emit(c, PUSH(<<RegName(Head(c.regs))>>)), 4)
                    ELSE c)

\* the register is discounted and stays at the back
FreeRegStay(c, re) == [c EXCEPT !.usage[re] = @ - 1]

\* the end of FreeReg: the register is discounted and moved to the front
FreeRegPut(c, re) ==
    [c EXCEPT !.usage[re] = @ - 1,
              !.regs = <<re>> \o SubSeq(c.regs, 1, Len(c.regs) - 1)]

FreeReg(c, re) ==
    IF c.panic THEN c
    ELSE IF re # c.regs[Len(c.regs)]
    THEN [c EXCEPT !.panic = TRUE]
    ELSE FreeRegPut(IF c.usage[re] > 1
                    THEN PopStack(Emit(c, POP(<<RegName(re)>>)), 4)
                    ELSE c, re)

\* the suffix GetUniqueLabelSuffix returns
LabelSuffix(c) == "_" \o c.fname \o "_" \o ToString(c.labelCounter)

GetUniqueLabelSuffix(c) ==
    IF c.panic THEN c ELSE [c EXCEPT !.labelCounter = @ + 1]

Bind(scope, ident, v) ==
    [n \in (DOMAIN scope) \cup {ident} |-> IF n = ident THEN v ELSE scope[n]]

\* the name is bound to the stackSize before the word was reserved
DeclareBindOld(c, ident) ==
    IF c.panic THEN c ELSE [c EXCEPT !.stack[1] = Bind(@, ident, c.stackSize - 4)]

\* m.stack[0][ident] = m.stackSize
DeclareBind(c, ident) ==
    IF c.panic THEN c ELSE [c EXCEPT !.stack[1] = Bind(@, ident, c.stackSize)]

DeclareVar(c, ident) ==
    Emit(DeclareBind(PushStack(c, 4), ident), SUBI("sp", "sp", 4))

\* the scopes are searched innermost first
RECURSIVE ResolveIn(_, _, _)
ResolveIn(stack, stackSize, ident) ==
    IF stack = <<>> THEN -1
    ELSE IF ident \in DOMAIN stack[1] THEN stackSize - stack[1][ident]
    ELSE ResolveIn(Tail(stack), stackSize, ident)

Visible(stack, ident) == \E i \in 1..Len(stack) : ident \in DOMAIN stack[i]

ResolveVar(c, ident) == ResolveIn(c.stack, c.stackSize, ident)

StartScope(c) ==
    IF c.panic THEN c ELSE [c EXCEPT !.stack = <<EmptyScope>> \o @]

\* the whole of the scope reclaimed by one ADD
CleanupOneAdd(c, o) == IF o > 0 THEN Emit(c, ADDI("sp", "sp", o)) ELSE c

RECURSIVE CleanupAdds(_, _)
CleanupAdds(c, o) ==
    IF o > 0
    THEN CleanupAdds(Emit(c, ADDI("sp", "sp", IF o > 255 THEN 255 ELSE o)),
                     o - 255)
    ELSE c

\* sl in CleanupScope
ScopeBytes(c) == Cardinality(DOMAIN c.stack[1]) * 4

\* m.stack = m.stack[1:]
DropScope(c) == IF c.panic THEN c ELSE [c EXCEPT !.stack = Tail(@)]

CleanupScope(c) ==
    IF c.panic THEN c
    ELSE DropScope(PopStack(CleanupAdds(c, ScopeBytes(c)), ScopeBytes(c)))

(***************************************************************************)
(* Runtime helper labels and the strings the helpers intern.               *)
(***************************************************************************)
mPrintString         == "%.*s\\0"
mPrintInt            == "%d\\0"
mReadChar            == " %c\\0"
mPrintReference      == "%p\\0"
mNewLine             == "\\n\\0"
mTrue                == "true\\0"
mFalse               == "false\\0"
mPutChar             == "putchar"
mFFlush              == "fflush"
mPrintf              == "printf"
mScanf               == "scanf"
mFreeLabel           == "free"
mExitLabel           == "exit"
mMalloc              == "malloc"
mPrintNewLineLabel   == "p_print_ln"
mPrintIntLabel       == "p_print_int"
mPrintStringLabel    == "p_print_string"
mPrintStringLoopLabel == "p_print_string_loop"
mPrintStringEndLabel == "p_print_string_return"
mPrintCharLabel      == "p_print_char"
mPrintBoolLabel      == "p_print_bool"
mPrintReferenceLabel == "p_print_reference"
mReadIntLabel        == "p_read_int"
mReadCharLabel       == "p_read_char"
mThrowRuntimeErr     == "p_throw_runtime_error"
mDivideByZeroLbl     == "p_check_divide_by_zero"
mNullReferenceLbl    == "pi_check_null_pointer"
mOverflowLbl         == "p_throw_overflow_error"
mArrayBoundLbl       == "p_check_array_bounds"
mDivideByZeroErr     == "DivideByZeroError: divide or modulo by zero\\n\\0"
mNullReferenceErr    == "NullReferenceError: dereference a null reference\\n\\0"
mArrayNegIndexErr    == "ArrayIndexOutOfBoundsError: negative index\\n\\0"
mArrayLrgIndexErr    == "ArrayIndexOutOfBoundsError: index too large\\n\\0"
mOverflowErr         == "OverflowError: the result is too small/large to store in a 4-byte signed-integer.\\n\\0"

(***************************************************************************)
(* Expressions.  An expression is a record with its kind k and its parts:  *)
(* leaves int, true, false, char, str (s), null, ident (id); unary         *)
(* operators not, neg, len, ord, chr (e); binary operators (l, r);         *)
(* arrelem (id, idx); newpair (fst, snd); paren.                           *)
(***************************************************************************)
Leaves   == {"int", "true", "false", "char", "str", "null", "ident"}
UnaryOps == {"not", "neg", "len", "ord", "chr"}
CmpOps   == {"gt", "ge", "lt", "le", "eq", "ne"}
BinaryOps == {"mul", "div", "mod", "add", "sub", "and", "or"} \cup CmpOps

maxWeight(x, y) == IF x > y THEN x ELSE y

minWeight(x, y) == IF x < y THEN x ELSE y

RECURSIVE Weight(_)
Weight(e) ==
    IF e.k \in Leaves THEN 1
    ELSE IF e.k = "newpair" THEN maxWeight(Weight(e.fst), Weight(e.snd)) + 1
    ELSE IF e.k = "arrelem" THEN 1
    ELSE IF e.k \in UnaryOps THEN Weight(e.e)
    ELSE IF e.k \in BinaryOps
    THEN minWeight(maxWeight(Weight(e.l), Weight(e.r) + 1),
                   maxWeight(Weight(e.l) + 1, Weight(e.r)))
    ELSE -1

\* the static type of a variable, by its name
VarType(id) ==
    CASE id = "x" -> "int"
      [] id = "p" -> "pair"
      [] id = "a" -> "intarray"
      [] id = "s" -> "string"
      [] OTHER -> "int"

TypeOf(e) ==
    CASE e.k \in {"int", "neg", "len", "ord", "mul", "div", "mod", "add", "sub"}
           -> "int"
      [] e.k \in {"true", "false", "not", "and", "or"} \cup CmpOps -> "bool"
      [] e.k \in {"char", "chr"} -> "char"
      [] e.k = "str" -> "string"
      [] e.k \in {"null", "newpair"} -> "pair"
      [] e.k = "ident" -> VarType(e.id)
      [] e.k = "arrelem" -> IF VarType(e.id) = "string" THEN "char" ELSE "int"
      [] OTHER -> "none"

Cond(k) ==
    CASE k = "gt" -> "GT" [] k = "ge" -> "GE" [] k = "lt" -> "LT"
      [] k = "le" -> "LE" [] k = "eq" -> "EQ" [] k = "ne" -> "NE"

getOpposite(cond) ==
    CASE cond = "GT" -> "LE" [] cond = "GE" -> "LT" [] cond = "LT" -> "GE"
      [] cond = "LE" -> "GT" [] cond = "EQ" -> "NE" [] cond = "NE" -> "EQ"

RECURSIVE ExprCodeGen(_, _, _)
RECURSIVE arrayHelperLoop(_, _, _, _, _)

\* the loop of arrayHelper over the index expressions from position index
arrayHelperLoop(c, exprs, index, target, indexReg) ==
    IF index > Len(exprs) THEN c
    ELSE arrayHelperLoop(
            EmitAll(ExprCodeGen(Emit(c, LDRM(RegName(target), RegName(target), 0)),
                                exprs[index], indexReg),
                    <<MOV("r0", RegName(indexReg)),
                      MOV("r1", RegName(target)),
                      BL("", mArrayBoundLbl),
                      ADDI(RegName(target), RegName(target), 4),
                      ADDLSL(RegName(target), RegName(target), RegName(indexReg), 2)>>),
            exprs, index + 1, target, indexReg)

\* arrayHelper from indexReg := alloc.GetReg on
arrayHelperIndex(c, exprs, target) ==
    FreeReg(arrayHelperLoop(GetReg(c), exprs, 1, target, NextReg(c)), NextReg(c))

arrayHelper(c, ident, exprs, target) ==
    arrayHelperIndex(Emit(c, ADDI(RegName(target), "sp", ResolveVar(c, ident))),
                     exprs, target)

\* lhs.Weight() > rhs.Weight(): the left operand is evaluated first
LhsFirst(e) == Weight(e.l) > Weight(e.r)

(***************************************************************************)
(* The binary operators.  Each CodeGen method begins with the same         *)
(* evaluation of the operands (BinaryOperator, BinarySecond): the operand  *)
(* evaluated first into target, the other into target2 := alloc.GetReg.    *)
(* The operators named after the methods are what follows it.              *)
(***************************************************************************)
BinaryOperatorMult(c, e, target, target2) ==
    EmitAll(FreeReg(Emit(c, FsAddOp(mOverflowLbl)), target2),
            <<SMULL(RegName(target), RegName(target2), RegName(target), RegName(target2)),
              CMPASR(RegName(target2), RegName(target), 31),
              BL("NE", mOverflowLbl)>>)

BinaryOperatorDivMod(c, e, target, target2, routine, res) ==
    FreeReg(EmitAll(c, <<FsAddOp(mDivideByZeroLbl),
                         MOV("r0", RegName(IF LhsFirst(e) THEN target ELSE target2)),
                         MOV("r1", RegName(IF LhsFirst(e) THEN target2 ELSE target)),
                         BL("", mDivideByZeroLbl),
                         BL("", routine),
                         MOV(RegName(target), res)>>),
            target2)

BinaryOperatorDiv(c, e, target, target2) ==
    BinaryOperatorDivMod(c, e, target, target2, "__aeabi_idiv", "r0")

BinaryOperatorMod(c, e, target, target2) ==
    BinaryOperatorDivMod(c, e, target, target2, "__aeabi_idivmod", "r1")

BinaryOperatorAdd(c, e, target, target2) ==
    EmitAll(FreeReg(Emit(c, FsAddOp(mOverflowLbl)), target2),
            <<ADDR(RegName(target), RegName(target2), RegName(target)),
              BL("VS", mOverflowLbl)>>)

BinaryOperatorSub(c, e, target, target2) ==
    EmitAll(FreeReg(Emit(c, FsAddOp(mOverflowLbl)), target2),
            <<IF LhsFirst(e)
              THEN SUBR(RegName(target), RegName(target), RegName(target2))
              ELSE SUBR(RegName(target), RegName(target2), RegName(target)),
              BL("VS", mOverflowLbl)>>)

codeGenComparators(c, e, target, target2, condCode) ==
    EmitAll(FreeReg(c, target2),
            <<CMPR(RegName(target2), RegName(target)),
              MOVI(condCode, RegName(target), 1),
              MOVI(getOpposite(condCode), RegName(target), 0)>>)

BinaryOperatorAnd(c, e, target, target2) ==
    Emit(FreeReg(c, target2),
         ANDR(RegName(target), RegName(target2), RegName(target)))

BinaryOperatorOr(c, e, target, target2) ==
    Emit(FreeReg(c, target2),
         ORRR(RegName(target), RegName(target2), RegName(target)))

\* what the method of the operator does once both operands are evaluated
BinaryResult(c, e, target, target2) ==
    CASE e.k = "mul" -> BinaryOperatorMult(c, e, target, target2)
      [] e.k = "div" -> BinaryOperatorDiv(c, e, target, target2)
      [] e.k = "mod" -> BinaryOperatorMod(c, e, target, target2)
      [] e.k = "add" -> BinaryOperatorAdd(c, e, target, target2)
      [] e.k = "sub" -> BinaryOperatorSub(c, e, target, target2)
      [] e.k = "and" -> BinaryOperatorAnd(c, e, target, target2)
      [] e.k = "or"  -> BinaryOperatorOr(c, e, target, target2)
      [] OTHER -> codeGenComparators(c, e, target, target2, Cond(e.k))

\* target2 = alloc.GetReg(insch); second.CodeGen(alloc, target2, insch)
BinarySecond(c, e, second, target) ==
    BinaryResult(ExprCodeGen(GetReg(c), second, NextReg(c)), e, target, NextReg(c))

BinaryOperator(c, e, target) ==
    IF LhsFirst(e)
    THEN BinarySecond(ExprCodeGen(c, e.l, target), e, e.r, target)
    ELSE BinarySecond(ExprCodeGen(c, e.r, target), e, e.l, target)

\* PairLiteral.CodeGen from elemReg := alloc.GetReg on
PairLiteralElems(c, e, target) ==
    FreeReg(Emit(ExprCodeGen(Emit(ExprCodeGen(GetReg(c), e.fst, NextReg(c)),
                                  STRM(RegName(NextReg(c)), RegName(target), 0)),
                             e.snd, NextReg(c)),
                 STRM(RegName(NextReg(c)), RegName(target), 4)),
            NextReg(c))

PairLiteral(c, e, target) ==
    PairLiteralElems(EmitAll(c, <<LDRC("r0", 8), BL("", mMalloc),
                                  MOV(RegName(target), "r0")>>),
                     e, target)

StringLiteral(c, e, target) ==
    EmitAll(c, <<Lookup32Op(0, e.s), LDRL("", RegName(target), Slot(0))>>)

UnaryOperatorNegate(c, e, target) ==
    EmitAll(ExprCodeGen(c, e.e, target),
            <<NEG(RegName(target), RegName(target)), BL("VS", mOverflowLbl)>>)

ArrayElem(c, e, target) ==
    Emit(arrayHelper(c, e.id, e.idx, target),
         LDRM(RegName(target), RegName(target), 0))

ExprCodeGen(c, e, target) ==
    CASE e.k = "ident" -> Emit(c, LDRM(RegName(target), "sp", ResolveVar(c, e.id)))
      [] e.k = "int"   -> Emit(c, LDRC(RegName(target), e.v))
      [] e.k = "true"  -> Emit(c, MOVI("", RegName(target), 1))
      [] e.k = "false" -> Emit(c, MOVI("", RegName(target), 0))
      [] e.k = "char"  -> Emit(c, MOVI("", RegName(target), 99))
      [] e.k = "str"   -> StringLiteral(c, e, target)
      [] e.k = "newpair" -> PairLiteral(c, e, target)
      [] e.k = "null"  -> Emit(c, MOVI("", RegName(target), 0))
      [] e.k = "arrelem" -> ArrayElem(c, e, target)
      [] e.k = "not"   -> Emit(ExprCodeGen(c, e.e, target),
                               NOTI(RegName(target), RegName(target)))
      [] e.k = "neg"   -> UnaryOperatorNegate(c, e, target)
      [] e.k = "len"   -> Emit(ExprCodeGen(c, e.e, target),
                               LDRM(RegName(target), RegName(target), 0))
      [] e.k \in {"ord", "chr"} -> ExprCodeGen(c, e.e, target)
      [] e.k \in BinaryOps -> BinaryOperator(c, e, target)
      [] OTHER -> c

(***************************************************************************)
(* Right and left hand sides.  A right hand side is an expression, an      *)
(* array literal arrlit (elements), a pair element pairelem (snd, e) or a  *)
(* call (id, args); a left hand side is var (id), arrlhs (id, idx) or      *)
(* pairlhs (snd, e).                                                       *)
(***************************************************************************)
pairElem(c, e, target) ==
    EmitAll(ExprCodeGen(c, e, target),
            <<MOV("r0", RegName(target)), BL("", mNullReferenceLbl)>>)

PairElemLHS(c, m, target) ==
    IF m.snd
    THEN Emit(pairElem(c, m.e, target), ADDI(RegName(target), RegName(target), 4))
    ELSE pairElem(c, m.e, target)

ArrayLHS(c, m, target) == arrayHelper(c, m.id, m.idx, target)

VarLHS(c, m, target) ==
    EmitAll(c, <<MOV(RegName(target), "sp"),
                 ADDI(RegName(target), RegName(target), ResolveVar(c, m.id))>>)

LHSCodeGen(c, m, target) ==
    CASE m.k = "var" -> VarLHS(c, m, target)
      [] m.k = "arrlhs" -> ArrayLHS(c, m, target)
      [] m.k = "pairlhs" -> PairElemLHS(c, m, target)

RECURSIVE ArrayLiterLoop(_, _, _, _, _)
ArrayLiterLoop(c, elements, pos, target, arrayReg) ==
    IF pos > Len(elements) THEN c
    ELSE ArrayLiterLoop(Emit(ExprCodeGen(c, elements[pos], arrayReg),
                             STRM(RegName(arrayReg), RegName(target), pos * 4)),
                        elements, pos + 1, target, arrayReg)

\* ArrayLiterRHS.CodeGen from arrayReg := alloc.GetReg on
ArrayLiterFill(c, m, target) ==
    EmitAll(FreeReg(ArrayLiterLoop(GetReg(c), m.elements, 1, target, NextReg(c)),
                    NextReg(c)),
            <<LDRC(RegName(NextReg(c)), Len(m.elements)),
              STRM(RegName(NextReg(c)), RegName(target), 0)>>)

ArrayLiterRHS(c, m, target) ==
    ArrayLiterFill(EmitAll(c, <<LDRC("r0", Len(m.elements) * 4 + 4),
                                BL("", mMalloc),
                                MOV(RegName(target), "r0")>>),
                   m, target)

PairElemRHS(c, m, target) ==
    Emit(pairElem(c, m.e, target),
         LDRM(RegName(target), RegName(target), IF m.snd THEN 4 ELSE 0))

\* one round of the first loop of FunctionCallRHS, after reg := alloc.GetReg
CallPushArg(c, e, reg) ==
    FreeReg(PushStack(Emit(ExprCodeGen(c, e, reg), PUSH(<<RegName(reg)>>)), 4), reg)

\* the first loop of FunctionCallRHS, from argument i down to the first
RECURSIVE CallPushArgs(_, _, _)
CallPushArgs(c, args, i) ==
    IF i < 1 THEN c
    ELSE CallPushArgs(CallPushArg(GetReg(c), args[i], NextReg(c)), args, i - 1)

\* the second loop of FunctionCallRHS, from argument register i on
RECURSIVE CallPopArgs(_, _, _)
CallPopArgs(c, args, i) ==
    IF i < 4 /\ i < Len(args)
    THEN CallPopArgs(Emit(c, POP(<<RegName(i)>>)), args, i + 1)
    ELSE c

\* the arguments passed on the stack are dropped after the call
CallDropArgs(c, pl) ==
    IF pl > 4 THEN Emit(c, ADDI("sp", "sp", (pl - 4) * 4)) ELSE c

FunctionCallRHS(c, m, target) ==
    PopStack(CallDropArgs(EmitAll(CallPopArgs(CallPushArgs(c, m.args, Len(m.args)),
                                              m.args, 0),
                                  <<BL("", m.id), MOV(RegName(target), "r0")>>),
                          Len(m.args)),
             Len(m.args) * 4)

RHSCodeGen(c, m, target) ==
    CASE m.k = "arrlit" -> ArrayLiterRHS(c, m, target)
      [] m.k = "pairelem" -> PairElemRHS(c, m, target)
      [] m.k = "call" -> FunctionCallRHS(c, m, target)
      [] OTHER -> ExprCodeGen(c, m, target)

(***************************************************************************)
(* Statements.  Each operator is the CodeGen method of the statement kind  *)
(* up to its call of BaseStatement.CodeGen, which lowers the statement     *)
(* that follows.                                                           *)
(***************************************************************************)
\* DeclareAssignStatement.CodeGen from baseReg := alloc.GetReg on
StoreVar(c, ident, reg) ==
    Emit(c, STRM(RegName(reg), "sp", ResolveVar(c, ident)))

DeclareStore(c, m) ==
    FreeReg(StoreVar(RHSCodeGen(GetReg(c), m.rhs, NextReg(c)), m.id, NextReg(c)),
            NextReg(c))

DeclareAssignStatement(c, m) == DeclareStore(DeclareVar(c, m.id), m)

\* AssignStatement.CodeGen from rhsReg := alloc.GetReg on
AssignStore(c, m, lhsReg) ==
    FreeReg(FreeReg(Emit(RHSCodeGen(GetReg(c), m.rhs, NextReg(c)),
                         STRM(RegName(NextReg(c)), RegName(lhsReg), 0)),
                    NextReg(c)),
            lhsReg)

AssignStatement(c, m) ==
    AssignStore(LHSCodeGen(GetReg(c), m.target, NextReg(c)), m, NextReg(c))

\* the static type of a left hand side
LHSType(m) ==
    CASE m.k = "var" -> VarType(m.id)
      [] m.k = "arrlhs" -> IF VarType(m.id) = "string" THEN "char" ELSE "int"
      [] OTHER -> "int"

\* the helper read dispatches to
ReadLabel(m) ==
    IF LHSType(m.target) = "char" THEN mReadCharLabel ELSE mReadIntLabel

ReadStatement(c, m) ==
    FreeReg(EmitAll(LHSCodeGen(GetReg(c), m.target, NextReg(c)),
                    <<MOV("r0", RegName(NextReg(c))),
                      FsAddOp(ReadLabel(m)),
                      BL("", ReadLabel(m))>>),
            NextReg(c))

FreeStatement(c, m) ==
    EmitAll(ExprCodeGen(GetReg(c), m.e, NextReg(c)),
            <<MOV("r0", RegName(NextReg(c))),
              BL("", mNullReferenceLbl),
              MOV("r0", RegName(NextReg(c))),
              BL("", mFreeLabel)>>)

\* ADD sp, sp, #stackSize and the branch to the epilogue
ReturnJump(c) ==
    EmitAll(c, <<ADDI("sp", "sp", c.stackSize), B("", c.fname \o "_return")>>)

ReturnStatement(c, m) ==
    FreeReg(ReturnJump(Emit(ExprCodeGen(GetReg(c), m.e, NextReg(c)),
                            MOV("r0", RegName(NextReg(c))))),
            NextReg(c))

ExitStatement(c, m) ==
    FreeReg(EmitAll(ExprCodeGen(GetReg(c), m.e, NextReg(c)),
                    <<MOV("r0", RegName(NextReg(c))), BL("", mExitLabel)>>),
            NextReg(c))

\* the helper print dispatches to for an expression of static type t
PrintLabel(t) ==
    CASE t = "int" -> mPrintIntLabel
      [] t = "bool" -> mPrintBoolLabel
      [] t = "char" -> mPrintCharLabel
      [] t = "pair" -> mPrintReferenceLabel
      [] t = "string" -> mPrintStringLabel
      [] OTHER -> mPrintReferenceLabel

print(c, e) ==
    EmitAll(FreeReg(Emit(ExprCodeGen(GetReg(c), e, NextReg(c)),
                         MOV("r0", RegName(NextReg(c)))),
                    NextReg(c)),
            <<FsAddOp(PrintLabel(TypeOf(e))), BL("", PrintLabel(TypeOf(e)))>>)

PrintLnStatement(c, m) == Emit(print(c, m.e), BL("", mPrintNewLineLabel))

PrintStatement(c, m) == print(c, m.e)

\* BlockStatement.CodeGen up to the lowering of the body
BlockOpen(c) ==
    StartScope(Emit(GetUniqueLabelSuffix(c), LABEL("block" \o LabelSuffix(c))))

\* BlockStatement.CodeGen after the lowering of the body
BlockClose(c, suffix) ==
    Emit(CleanupScope(c), LABEL("block_end" \o suffix))

\* IfStatement.CodeGen from target := alloc.GetReg to the lowering of trueStat
IfCond(c, m, suffix) ==
    StartScope(EmitAll(FreeReg(Emit(ExprCodeGen(GetReg(c), m.cond, NextReg(c)),
                                    CMPI(RegName(NextReg(c)), 0)),
                               NextReg(c)),
                       <<B("EQ", "else" \o suffix), LABEL("then" \o suffix)>>))

\* IfStatement.CodeGen up to the lowering of trueStat
IfOpen(c, m) ==
    IfCond(Emit(GetUniqueLabelSuffix(c), LABEL("if" \o LabelSuffix(c))),
           m, LabelSuffix(c))

\* IfStatement.CodeGen between trueStat and falseStat
IfElse(c, suffix) ==
    StartScope(EmitAll(CleanupScope(c),
                       <<B("", "end" \o suffix), LABEL("else" \o suffix)>>))

\* IfStatement.CodeGen after the lowering of falseStat
IfClose(c, suffix) ==
    Emit(CleanupScope(c), LABEL("end" \o suffix))

\* WhileStatement.CodeGen up to the lowering of the body
WhileOpen(c) ==
    StartScope(EmitAll(GetUniqueLabelSuffix(c),
                       <<LABEL("while" \o LabelSuffix(c)),
                         B("", "cond" \o LabelSuffix(c)),
                         LABEL("do" \o LabelSuffix(c))>>))

\* WhileStatement.CodeGen from target := alloc.GetReg on
WhileCond(c, m, suffix) ==
    EmitAll(FreeReg(ExprCodeGen(GetReg(c), m.cond, NextReg(c)), NextReg(c)),
            <<CMPI(RegName(NextReg(c)), 1),
              B("EQ", "do" \o suffix),
              LABEL("end" \o suffix)>>)

\* WhileStatement.CodeGen after the lowering of the body
WhileClose(c, m, suffix) ==
    WhileCond(Emit(CleanupScope(c), LABEL("cond" \o suffix)), m, suffix)

\* a statement that holds no other statement
SimpleStatement(c, m) ==
    CASE m.k = "skip" -> c
      [] m.k = "declare" -> DeclareAssignStatement(c, m)
      [] m.k = "assign" -> AssignStatement(c, m)
      [] m.k = "read" -> ReadStatement(c, m)
      [] m.k = "free" -> FreeStatement(c, m)
      [] m.k = "return" -> ReturnStatement(c, m)
      [] m.k = "exit" -> ExitStatement(c, m)
      [] m.k = "print" -> PrintStatement(c, m)
      [] m.k = "println" -> PrintLnStatement(c, m)

(***************************************************************************)
(* Procedures.  A procedure f has ident, params (names), main (whether it  *)
(* is the synthetic main, which has no return type) and body.              *)
(***************************************************************************)
\* the switch of FunctionDef.CodeGen that pushes the argument registers
RECURSIVE PushParams(_, _)
PushParams(c, i) ==
    IF i < 0 THEN c ELSE PushParams(Emit(c, PUSH(<<RegName(i)>>)), i - 1)

\* every parameter bound as if it had been passed in a register
ParamOffsetFlat(i) == i * (-4)

\* the offset FunctionDef.CodeGen binds parameter i (from 0) to
ParamOffset(i) == IF i < 4 THEN i * (-4) ELSE (-4) + (-4) + i * (-4) + 8 * (-4)

ParamScope(params) ==
    [n \in {params[i] : i \in 1..Len(params)} |->
        ParamOffset((CHOOSE i \in 1..Len(params) :
                        params[i] = n /\ \A j \in (i + 1)..Len(params) : params[j] # n) - 1)]

\* the parameters are bound in the scope FunctionDef.CodeGen has opened
BindParams(c, params) == [c EXCEPT !.stack[1] = ParamScope(params)]

\* the parameters passed in registers
RegParams(f) == IF Len(f.params) >= 4 THEN 4 ELSE Len(f.params)

\* FunctionDef.CodeGen up to the lowering of the body
FunctionOpen(f) ==
    StartScope(BindParams(
        PushParams(
            EmitAll(StartScope(Emit(Ctx([CreateRegAllocator EXCEPT !.fname = f.ident]),
                                    LABEL(f.ident))),
                    <<PUSH(<<"lr">>), PUSH(<<"ip">>),
                      PUSH(<<"r4", "r5", "r6", "r7", "r8", "r9", "r10", "r11">>)>>),
            RegParams(f) - 1),
        f.params))

\* FunctionDef.CodeGen after the lowering of the body
FunctionClose(c, f) ==
    EmitAll(CleanupScope(c),
            (IF f.main THEN <<MOVI("", "r0", 0)>> ELSE <<>>)
            \o <<LABEL(f.ident \o "_return")>>
            \o (IF Len(f.params) > 0
                THEN <<ADDI("sp", "sp", RegParams(f) * 4)>>
                ELSE <<>>)
            \o <<POP(<<"r4", "r5", "r6", "r7", "r8", "r9", "r10", "r11">>),
                 POP(<<"ip">>), POP(<<"pc">>), LTORG>>)

RECURSIVE StatementCodeGen(_, _)

\* one statement of a list, with the statements it holds
Statement(c, m) ==
    CASE m.k = "block" ->
           BlockClose(StatementCodeGen(BlockOpen(c), m.body), LabelSuffix(c))
      [] m.k = "if" ->
           IfClose(StatementCodeGen(
                      IfElse(StatementCodeGen(IfOpen(c, m), m.t), LabelSuffix(c)),
                      m.f),
                   LabelSuffix(c))
      [] m.k = "while" ->
           WhileClose(StatementCodeGen(WhileOpen(c), m.body), m, LabelSuffix(c))
      [] OTHER -> SimpleStatement(c, m)

\* a statement list: each statement, then the one that follows it
StatementCodeGen(c, stmts) ==
    IF stmts = <<>> THEN c
    ELSE StatementCodeGen(Statement(c, Head(stmts)), Tail(stmts))

\* everything the goroutine of FunctionDef.CodeGen does, in order
FunctionDefCodeGen(f) ==
    FunctionClose(StatementCodeGen(FunctionOpen(f), f.body), f)

(***************************************************************************)
(* The lowering of one procedure body, statement by statement.             *)
(*                                                                         *)
(* alloc is the procedure's RegAllocator and ctl the statements whose      *)
(* lowering has begun and not ended (innermost first; the last frame is    *)
(* the procedure itself).  out holds what the last step sent to the        *)
(* instruction channel, and last describes that step: the statement kind,  *)
(* the allocator before it, the stackSize at each instruction (ss), and,   *)
(* along one execution path of the emitted code, whether each instruction  *)
(* is on the path (live) and how far below its value at the start of the   *)
(* body sp then is (spAt).  sp and path follow that execution path: sp is  *)
(* the number of bytes sp has been lowered since the body began, path is   *)
(* "on" while the code being lowered is on the path, "off" inside an arm   *)
(* or loop body the path does not enter, "ret" once the path has left      *)
(* through a return, "end" once it has called exit.                        *)
(***************************************************************************)
VARIABLES alloc, ctl, out, last, sp, path, phase

varsBody == <<alloc, ctl, out, last, sp, path, phase>>

\* the effect of an instruction on sp, in bytes lowered
SpEffect(i) ==
    CASE i.op = "PUSH" -> 4 * Len(i.r)
      [] i.op = "POP" -> (-4) * Len(i.r)
      [] i.op = "SUB" /\ i.r = <<"sp", "sp">> -> i.n
      [] i.op = "ADD" /\ i.r = <<"sp", "sp">> -> -i.n
      [] OTHER -> 0

\* an unconditional branch, or the call of exit, ends the path through
\* straight-line code
LeavesPath(i) ==
    \/ i.op = "B" /\ i.cond = ""
    \/ i.op = "BL" /\ i.cond = "" /\ i.l = mExitLabel

\* whether the instruction addresses a variable through a resolved offset
UsesOffset(i) ==
    \/ i.op \in {"LDR", "STR"} /\ Len(i.r) = 2 /\ i.r[2] = "sp"
    \/ i.op = "ADD" /\ Len(i.r) = 2 /\ i.r[2] = "sp" /\ i.r[1] # "sp"
    \/ i.op = "MOV" /\ Len(i.r) = 2 /\ i.r[2] = "sp"

\* the walk of an instruction sequence along the path: w.sp, w.on, and for
\* each instruction w.spAt (sp before it) and w.live (it is executed)
RECURSIVE Walk(_, _, _)
Walk(w, is, k) ==
    IF k > Len(is) THEN w
    ELSE LET i == is[k]
             w1 == [w EXCEPT !.spAt = Append(@, w.sp), !.live = Append(@, w.on)]
             w2 == IF w.on
                   THEN [w1 EXCEPT !.sp = @ + SpEffect(i),
                                   !.on = ~LeavesPath(i),
                                   !.how = IF i.op = "B" /\ LeavesPath(i) THEN "ret"
                                           ELSE IF LeavesPath(i) THEN "end" ELSE @]
                   ELSE w1
         IN  Walk(w2, is, k + 1)

StartWalk(s, on) ==
    [sp |-> s, on |-> on, spAt |-> <<>>, live |-> <<>>, how |-> ""]

ARegs(a) == [regs |-> a.regs, usage |-> a.usage, stackSize |-> a.stackSize]

\* what the lowering keeps of a statement with a body while the body is
\* lowered; spIn is sp where the path comes to the statement
Frame(kind, suffix, saved, taken) ==
    [kind |-> kind, suffix |-> suffix, saved |-> saved, taken |-> taken,
     armEnd |-> "", spIn |-> IF saved = "on" THEN sp ELSE 0]

\* the procedure whose body is lowered
BodyFunc == [ident |-> "f", params |-> <<>>, main |-> FALSE, body |-> <<>>]

Held(a) == LET RECURSIVE Sum(_)
               Sum(r) == IF r > 11 THEN 0 ELSE a.usage[r] + Sum(r + 1)
           IN  Sum(0)

\* the variables the body has declared in the scopes now open
NumVars(a) ==
    LET RECURSIVE Count(_)
        Count(i) == IF i >= Len(a.stack) THEN 0
                    ELSE Cardinality(DOMAIN a.stack[i]) + Count(i + 1)
    IN  Count(1)

Vis(id) == Visible(alloc.stack, id)

Lit == [k |-> "int", v |-> 1]
Var(id) == [k |-> "ident", id |-> id]
Bin(k, l, r) == [k |-> k, l |-> l, r |-> r]
Un(k, e) == [k |-> k, e |-> e]
Elem(id, idx) == [k |-> "arrelem", id |-> id, idx |-> idx]
Call(id, args) == [k |-> "call", id |-> id, args |-> args]

\* the int expressions a statement may hold where it stands
IntExprs ==
    {Lit, Bin("add", Lit, Lit)}
    \cup (IF Vis("x") THEN {Var("x")} ELSE {})
    \cup (IF Vis("a") THEN {Elem("a", <<Lit>>)} ELSE {})

BoolExprs ==
    {[k |-> "true"]}
    \cup (IF Vis("x") THEN {Bin("lt", Var("x"), Lit)} ELSE {})

IntRHS ==
    {Lit, Call("g", <<Lit, Lit>>)}
    \cup (IF Vis("p") THEN {[k |-> "pairelem", snd |-> TRUE, e |-> Var("p")]} ELSE {})

Declarations ==
    {[k |-> "declare", id |-> "x", rhs |-> r] : r \in IntRHS}
    \cup {[k |-> "declare", id |-> "p",
           rhs |-> [k |-> "newpair", fst |-> Lit, snd |-> Lit]]}

Targets ==
    (IF Vis("x") THEN {[k |-> "var", id |-> "x"]} ELSE {})
    \cup (IF Vis("a") THEN {[k |-> "arrlhs", id |-> "a", idx |-> <<Lit>>]} ELSE {})
    \cup (IF Vis("p") THEN {[k |-> "pairlhs", snd |-> FALSE, e |-> Var("p")]} ELSE {})

\* the statements without a body that may stand where the lowering is
Statements ==
    {[k |-> "skip"]}
    \cup {d \in Declarations : d.id \notin DOMAIN alloc.stack[1]
                               /\ NumVars(alloc) < MaxVars}
    \cup {[k |-> "assign", target |-> t, rhs |-> Lit] : t \in Targets}
    \cup {[k |-> "read", target |-> t] : t \in Targets \cap {[k |-> "var", id |-> "x"]}}
    \cup (IF Vis("p") /\ Held(alloc) < MaxHeld
          THEN {[k |-> "free", e |-> Var("p")]} ELSE {})
    \cup {[k |-> "return", e |-> e] : e \in IntExprs \ {Lit}}
    \cup {[k |-> "exit", e |-> Lit]}
    \cup {[k |-> "print", e |-> [k |-> "str", s |-> <<"h", "i">>]]}
    \cup {[k |-> "println", e |-> e] : e \in BoolExprs}

InitBody ==
    LET c == FunctionOpen(BodyFunc)
    IN  /\ alloc = AllocOf(c)
        /\ sp = 0
        /\ ctl = <<Frame("func", "", "on", "")>>
        /\ out = c.out
        /\ last = [kind |-> "open", pre |-> ARegs(AllocOf(c)), ss |-> c.ss,
                   spAt |-> [k \in 1..Len(c.out) |-> 0],
                   live |-> [k \in 1..Len(c.out) |-> TRUE]]
        /\ path = "on"
        /\ phase = "body"

\* what a step leaves behind, given the context c it ended in and the walk w
\* of what it sent
Record(kind, pre, c, w) ==
    /\ alloc' = AllocOf(c)
    /\ out' = c.out
    /\ last' = [kind |-> kind, pre |-> pre, ss |-> c.ss,
                spAt |-> w.spAt, live |-> w.live]
    /\ sp' = w.sp
    /\ phase' = IF c.panic THEN "panic" ELSE phase

\* return and exit stand last in their statement list
ListOpen == last.kind \notin {"return", "exit"}

\* a statement without a body is lowered
LowerSimple ==
    /\ phase = "body"
    /\ ListOpen
    /\ \E m \in Statements :
          LET c == SimpleStatement(Ctx(alloc), m)
              w == Walk(StartWalk(sp, path = "on"), c.out, 1)
          IN  /\ Record(m.k, ARegs(alloc), c, w)
              /\ path' = IF w.how # "" THEN w.how ELSE path
    /\ UNCHANGED ctl

\* the rest of a step's output, walked after the part w has walked
WalkOn(w, on, c) == Walk([w EXCEPT !.on = on], c.out, Len(w.spAt) + 1)

CanOpen == /\ phase = "body"
           /\ ListOpen
           /\ alloc.labelCounter < MaxLabels

\* the lowering of a block statement begins
BlockBegin ==
    /\ CanOpen
    /\ LET c == BlockOpen(Ctx(alloc))
           w == Walk(StartWalk(sp, path = "on"), c.out, 1)
       IN  /\ Record("open", ARegs(alloc), c, w)
           /\ ctl' = <<Frame("block", LabelSuffix(Ctx(alloc)), path, "")>> \o ctl
    /\ UNCHANGED path

\* the body of a block statement has been lowered
BlockEnd ==
    /\ phase = "body"
    /\ Head(ctl).kind = "block"
    /\ LET c == BlockClose(Ctx(alloc), Head(ctl).suffix)
           w == Walk(StartWalk(sp, path = "on"), c.out, 1)
       IN  Record("block", ARegs(alloc), c, w)
    /\ ctl' = Tail(ctl)
    /\ UNCHANGED path

\* the lowering of an if statement begins; the path takes one of its arms
IfBegin ==
    /\ CanOpen
    /\ \E cond \in BoolExprs :
       \E taken \in IF path = "on" THEN {"then", "else"} ELSE {"then"} :
          LET m == [k |-> "if", cond |-> cond]
              c == IfOpen(Ctx(alloc), m)
              w == Walk(StartWalk(sp, path = "on"), c.out, 1)
          IN  /\ Record("open", ARegs(alloc), c, w)
              /\ ctl' = <<Frame("then", LabelSuffix(Ctx(alloc)), path, taken)>> \o ctl
              /\ path' = IF path = "on" /\ taken = "else" THEN "off" ELSE path

\* the true arm has been lowered and the lowering of the false arm begins
IfMiddle ==
    /\ phase = "body"
    /\ Head(ctl).kind = "then"
    /\ LET fr == Head(ctl)
           c == IfElse(Ctx(alloc), fr.suffix)
           w == Walk(StartWalk(sp, path = "on"), c.out, 1)
       IN  /\ Record("open", ARegs(alloc), c, w)
           /\ ctl' = <<[fr EXCEPT !.kind = "else", !.armEnd = path]>> \o Tail(ctl)
           /\ path' = IF fr.saved = "on"
                      THEN (IF fr.taken = "else" THEN "on" ELSE "off")
                      ELSE fr.saved

\* the false arm has been lowered
IfEnd ==
    /\ phase = "body"
    /\ Head(ctl).kind = "else"
    /\ LET fr == Head(ctl)
           c == IfClose(Ctx(alloc), fr.suffix)
           w == Walk(StartWalk(sp, path = "on"), c.out, 1)
       IN  /\ Record("if", ARegs(alloc), c, w)
           /\ path' = IF fr.saved # "on" THEN fr.saved
                      ELSE IF fr.taken = "then" THEN fr.armEnd ELSE path
    /\ ctl' = Tail(ctl)

\* the lowering of a while statement begins; the path enters the loop body
\* (its first iteration) or does not
WhileBegin ==
    /\ CanOpen
    /\ \E taken \in IF path = "on" THEN {"body", "skip"} ELSE {"body"} :
          LET c == WhileOpen(Ctx(alloc))
              w == Walk(StartWalk(sp, path = "on"), c.out, 1)
          IN  /\ Record("open", ARegs(alloc), c, w)
              /\ ctl' = <<Frame("while", LabelSuffix(Ctx(alloc)), path, taken)>> \o ctl
              /\ path' = IF path = "on" /\ taken = "skip" THEN "off" ELSE path

\* the loop body has been lowered; the condition follows it.  The path
\* reaches the condition from the loop entry (it skipped the body) or from
\* the end of the body
WhileEnd ==
    /\ phase = "body"
    /\ Head(ctl).kind = "while"
    /\ \E cond \in BoolExprs :
          LET fr == Head(ctl)
              m == [k |-> "while", cond |-> cond]
              cA == CleanupScope(Ctx(alloc))
              c == WhileClose(Ctx(alloc), m, fr.suffix)
              wA == Walk(StartWalk(sp, path = "on"), cA.out, 1)
              onCond == fr.saved = "on" /\ (fr.taken = "skip" \/ path = "on")
              w == WalkOn(wA, onCond, c)
          IN  /\ Record("while", ARegs(alloc), c, w)
              /\ path' = IF fr.saved # "on" THEN fr.saved
                         ELSE IF fr.taken = "skip" THEN "on" ELSE path
    /\ ctl' = Tail(ctl)

\* the body of the procedure has been lowered: the epilogue
FunctionEnd ==
    /\ phase = "body"
    /\ Head(ctl).kind = "func"
    /\ LET c == FunctionClose(Ctx(alloc), BodyFunc)
           w == Walk(StartWalk(sp, path = "on"), c.out, 1)
       IN  /\ alloc' = AllocOf(c)
           /\ out' = c.out
           /\ last' = [kind |-> "func", pre |-> ARegs(alloc), ss |-> c.ss,
                       spAt |-> w.spAt, live |-> w.live]
           /\ sp' = sp
    /\ phase' = "done"
    /\ ctl' = <<>>
    /\ UNCHANGED path

NextBody ==
    \/ LowerSimple
    \/ BlockBegin \/ BlockEnd
    \/ IfBegin \/ IfMiddle \/ IfEnd
    \/ WhileBegin \/ WhileEnd
    \/ FunctionEnd

(***************************************************************************)
(* Runtime helpers.  Each generator of FSMap, as the sequence of what it   *)
(* does: the string-pool lookups and helper-pool additions it starts       *)
(* with, then the instructions it sends.                                   *)
(***************************************************************************)
TEQI(lhs, n) == Ins("TEQ", "", <<lhs>>, n, "")

printNewLine ==
    << Lookup8Op(0, mNewLine),
       LABEL(mPrintNewLineLabel), PUSH(<<"lr">>),
       LDRL("", "r0", Slot(0)), ADDI("r0", "r0", 4), BL("", mPrintf),
       MOVI("", "r0", 0), BL("", mFFlush), POP(<<"pc">>) >>

printString ==
    << LABEL(mPrintStringLabel), PUSH(<<"lr">>), PUSH(<<"r4", "r5">>),
       LDRM("r4", "r0", 0), ADDI("r5", "r0", 4),
       LABEL(mPrintStringLoopLabel), TEQI("r4", 0),
       B("EQ", mPrintStringEndLabel),
       LDRM("r0", "r5", 0), BL("", mPutChar),
       SUBI("r4", "r4", 1), ADDI("r5", "r5", 4),
       B("", mPrintStringLoopLabel),
       LABEL(mPrintStringEndLabel),
       MOVI("", "r0", 0), BL("", mFFlush),
       POP(<<"r4", "r5">>), POP(<<"pc">>) >>

printInt ==
    << Lookup8Op(0, mPrintInt),
       LABEL(mPrintIntLabel), PUSH(<<"lr">>), MOV("r1", "r0"),
       LDRL("", "r0", Slot(0)), ADDI("r0", "r0", 4), BL("", mPrintf),
       MOVI("", "r0", 0), BL("", mFFlush), POP(<<"pc">>) >>

printChar ==
    << LABEL(mPrintCharLabel), PUSH(<<"lr">>), BL("", mPutChar),
       POP(<<"pc">>) >>

printBool ==
    << Lookup8Op(0, mTrue), Lookup8Op(1, mFalse),
       LABEL(mPrintBoolLabel), PUSH(<<"lr">>), CMPI("r0", 0),
       LDRL("NE", "r0", Slot(0)), LDRL("EQ", "r0", Slot(1)),
       ADDI("r0", "r0", 4), BL("", mPrintf),
       MOVI("", "r0", 0), BL("", mFFlush), POP(<<"pc">>) >>

printReference ==
    << Lookup8Op(0, mPrintReference),
       LABEL(mPrintReferenceLabel), PUSH(<<"lr">>), MOV("r1", "r0"),
       LDRL("", "r0", Slot(0)), ADDI("r0", "r0", 4), BL("", mPrintf),
       MOVI("", "r0", 0), BL("", mFFlush), POP(<<"pc">>) >>

readInt ==
    << Lookup8Op(0, mPrintInt),
       LABEL(mReadIntLabel), PUSH(<<"lr">>), MOV("r1", "r0"),
       LDRL("", "r0", Slot(0)), ADDI("r0", "r0", 4), BL("", mScanf),
       POP(<<"pc">>) >>

readChar ==
    << Lookup8Op(0, mReadChar),
       LABEL(mReadCharLabel), PUSH(<<"lr">>), MOV("r1", "r0"),
       LDRL("", "r0", Slot(0)), ADDI("r0", "r0", 4), BL("", mScanf),
       POP(<<"pc">>) >>

checkDivideByZero ==
    << Lookup8Op(0, mDivideByZeroErr), FsAddOp(mThrowRuntimeErr),
       LABEL(mDivideByZeroLbl), PUSH(<<"lr">>), CMPI("r1", 0),
       LDRL("EQ", "r0", Slot(0)), BL("EQ", mThrowRuntimeErr),
       POP(<<"pc">>) >>

checkNullPointer ==
    << Lookup8Op(0, mNullReferenceErr), FsAddOp(mThrowRuntimeErr),
       LABEL(mNullReferenceLbl), PUSH(<<"lr">>), CMPI("r0", 0),
       LDRL("EQ", "r0", Slot(0)), BL("EQ", mThrowRuntimeErr),
       POP(<<"pc">>) >>

checkArrayBounds ==
    << Lookup8Op(0, mArrayNegIndexErr), Lookup8Op(1, mArrayLrgIndexErr),
       FsAddOp(mThrowRuntimeErr),
       LABEL(mArrayBoundLbl), PUSH(<<"lr">>), CMPI("r0", 0),
       LDRL("LT", "r0", Slot(0)), BL("LT", mThrowRuntimeErr),
       LDRM("r1", "r1", 0), CMPR("r0", "r1"),
       LDRL("CS", "r0", Slot(1)), BL("CS", mThrowRuntimeErr),
       POP(<<"pc">>) >>

checkOverflowUnderflow ==
    << Lookup8Op(0, mOverflowErr), FsAddOp(mThrowRuntimeErr),
       LABEL(mOverflowLbl),
       LDRL("", "r0", Slot(0)), BL("", mThrowRuntimeErr) >>

throwRuntimeError ==
    << Lookup8Op(0, mPrintString),
       LABEL(mThrowRuntimeErr),
       LDRM("r1", "r0", 0), ADDI("r2", "r0", 4),
       LDRL("", "r0", Slot(0)), ADDI("r0", "r0", 4), BL("", mPrintf),
       MOVI("", "r0", 0), BL("", mFFlush),
       MOVI("", "r0", 0 - 1), BL("", mExitLabel) >>

\* the helpers FSMap knows, by label
HelperLabels ==
    { mPrintStringLabel, mPrintIntLabel, mPrintCharLabel, mPrintBoolLabel,
      mPrintReferenceLabel, mPrintNewLineLabel, mReadIntLabel, mReadCharLabel,
      mDivideByZeroLbl, mNullReferenceLbl, mArrayBoundLbl, mOverflowLbl,
      mThrowRuntimeErr }

FSMap(h) ==
    CASE h = mPrintStringLabel    -> printString
      [] h = mPrintIntLabel       -> printInt
      [] h = mPrintCharLabel      -> printChar
      [] h = mPrintBoolLabel      -> printBool
      [] h = mPrintReferenceLabel -> printReference
      [] h = mPrintNewLineLabel   -> printNewLine
      [] h = mReadIntLabel        -> readInt
      [] h = mReadCharLabel       -> readChar
      [] h = mDivideByZeroLbl     -> checkDivideByZero
      [] h = mNullReferenceLbl    -> checkNullPointer
      [] h = mArrayBoundLbl       -> checkArrayBounds
      [] h = mOverflowLbl         -> checkOverflowUnderflow
      [] h = mThrowRuntimeErr     -> throwRuntimeError

(***************************************************************************)
(* String pool.                                                            *)
(***************************************************************************)
\* a pool that stores every string under index 0
PoolFirst(pool) == 0

\* l := len(m.pool)
PoolLen(pool) == Cardinality(DOMAIN pool)

\* m.pool[l] = d
PoolPut(pool, l, d) ==
    [i \in DOMAIN pool \cup {l} |-> IF i = l THEN d ELSE pool[i]]

\* the label a lookup returns for index l
MsgLabel(l) == "msg_" \o ToString(l)

\* Lookup8 stores the text as it is, with its length in bytes
DataString8(msg) == [len |-> Len(msg), str |-> msg]

\* Lookup32 writes every character but the backslash with three zero bytes
\* after it; msg is the literal character by character
RECURSIVE Wide(_)
Wide(msg) ==
    IF msg = <<>> THEN ""
    ELSE (IF Head(msg) = "\\" THEN "\\" ELSE Head(msg) \o "\\000\\000\\000")
             \o Wide(Tail(msg))

BackSlashes(msg) == Cardinality({i \in 1..Len(msg) : msg[i] = "\\"})

DataString32(msg) == [len |-> Len(msg) - BackSlashes(msg), str |-> Wide(msg)]

Lookup8(pool, msg)  == PoolPut(pool, PoolLen(pool), DataString8(msg))
Lookup32(pool, msg) == PoolPut(pool, PoolLen(pool), DataString32(msg))

(***************************************************************************)
(* The whole program: AST.CodeGen.                                         *)
(*                                                                         *)
(* ast is the program.  Goroutine i of code runs FunctionDef.CodeGen for   *)
(* procedure i (the functions in source order, then main): code[i] is      *)
(* what it does in order, pc[i] where it stands and msgs[i] the labels     *)
(* its lookups have returned.  strPool and fsPool are the two pools.       *)
(* driver is where the goroutine of AST.CodeGen stands, fch the channel    *)
(* it is draining, iter the keys its range over fsPool.pool has yet to     *)
(* produce, builtin the helper goroutine it is draining, txtInstr its      *)
(* buffer and ch what it has sent.  calls records every lookup (the label  *)
(* it returned and what it stored), made the helpers whose generator was   *)
(* started, and prev the output of an earlier run on the same program.     *)
(***************************************************************************)
VARIABLES ast, code, pc, msgs, strPool, fsPool, driver, fch, iter, builtin,
          txtInstr, ch, calls, made, prev

varsProg == <<ast, code, pc, msgs, strPool, fsPool, driver, fch, iter, builtin,
              txtInstr, ch, calls, made, prev>>

DataSeg      == Ins(".data", "", <<>>, 0, "")
TextSeg      == Ins(".text", "", <<>>, 0, "")
Global(l)    == Ins(".global", "", <<>>, 0, l)
DataWord(n)  == Ins(".word", "", <<>>, n, "")
DataAscii(s) == Ins(".ascii", "", <<>>, 0, s)

Str(s) == [k |-> "str", s |-> s]
True  == [k |-> "true"]
False == [k |-> "false"]
Skip  == [k |-> "skip"]
Func(ident, params, body) ==
    [ident |-> ident, params |-> params, main |-> FALSE, body |-> body]

\* print "a\n" ; println true
ProgPrint ==
    [functions |-> <<>>,
     main |-> << [k |-> "print", e |-> Str(<<"a", "\\", "n">>)],
                 [k |-> "println", e |-> True] >>]

\* int f(int x) is return x + 1 end  int g() is return 1 end
\* int x = call f(1) ; print x
ProgCall ==
    [functions |-> << Func("f", <<"x">>,
                           <<[k |-> "return", e |-> Bin("add", Var("x"), Lit)]>>),
                      Func("g", <<>>, <<[k |-> "return", e |-> Lit]>>) >>,
     main |-> << [k |-> "declare", id |-> "x", rhs |-> Call("f", <<Lit>>)],
                 [k |-> "print", e |-> Var("x")] >>]

\* int p_print_int() is return 1 end  print 1
ProgName ==
    [functions |-> << Func(mPrintIntLabel, <<>>,
                           <<[k |-> "return", e |-> Lit]>>) >>,
     main |-> << [k |-> "print", e |-> Lit] >>]

\* int f() is while false do skip done ; return 1 end
\* if true then skip else skip fi ; exit 1
ProgLabels ==
    [functions |-> << Func("f", <<>>,
                           << [k |-> "while", cond |-> False, body |-> <<Skip>>],
                              [k |-> "return", e |-> Lit] >>) >>,
     main |-> << [k |-> "if", cond |-> True, t |-> <<Skip>>, f |-> <<Skip>>],
                 [k |-> "exit", e |-> Lit] >>]

\* int f() is print "b" ; return 1 end  print "a"
ProgStrings ==
    [functions |-> << Func("f", <<>>,
                           << [k |-> "print", e |-> Str(<<"b">>)],
                              [k |-> "return", e |-> Lit] >>) >>,
     main |-> << [k |-> "print", e |-> Str(<<"a">>)] >>]

Programs == {ProgPrint, ProgCall, ProgName, ProgLabels, ProgStrings}

\* mainF of AST.CodeGen
MainF(a) == [ident |-> "main", params |-> <<>>, main |-> TRUE, body |-> a.main]

\* the procedures in the order AST.CodeGen starts them
Procedures(a) == a.functions \o <<MainF(a)>>

NoBuiltin == [name |-> "", pc |-> 0, msgs |-> <<"", "">>]

IsLookup(op) == op.op \in {"Lookup8", "Lookup32"}

\* what the lookup op stores
Stored(op) ==
    IF op.op = "Lookup8" THEN DataString8(op.l) ELSE DataString32(op.r)

\* the pools and the local labels after the pool operation op
StrPoolAfter(pool, op) ==
    CASE op.op = "Lookup8"  -> Lookup8(pool, op.l)
      [] op.op = "Lookup32" -> Lookup32(pool, op.r)
      [] OTHER -> pool

MsgsAfter(ms, pool, op) ==
    IF IsLookup(op) THEN [ms EXCEPT ![op.n + 1] = MsgLabel(PoolLen(pool))]
    ELSE ms

\* FSPool.Add
FsPoolAfter(fs, op) == IF op.op = "FsAdd" THEN fs \cup {op.l} ELSE fs

CallsAfter(cs, pool, op) ==
    IF IsLookup(op)
    THEN Append(cs, [label |-> MsgLabel(PoolLen(pool)), data |-> Stored(op)])
    ELSE cs

\* the pool operation op of a goroutine
PoolStep(op) ==
    /\ strPool' = StrPoolAfter(strPool, op)
    /\ fsPool' = FsPoolAfter(fsPool, op)
    /\ calls' = CallsAfter(calls, strPool, op)

\* an instruction as it is sent: it carries the label the lookup returned
Bound(i, ms) ==
    IF i.op = "LDRL" /\ i.l = Slot(0) THEN [i EXCEPT !.l = ms[1]]
    ELSE IF i.op = "LDRL" /\ i.l = Slot(1) THEN [i EXCEPT !.l = ms[2]]
    ELSE i

\* a driver that never receives
ReceivingNone(i) == FALSE

\* a driver that receives from whichever goroutine is ready to send
ReceivingAny(i) == TRUE

\* channels that hold one instruction: the first send of a goroutine does
\* not wait for the driver
ReceivingFirst(i) == pc[i] = 1 \/ i = fch

\* the range over charr drains one channel at a time
Receiving(i) == i = fch

\* a loop over strPool.pool that sends the last string first
RECURSIVE EntriesDown(_, _)
EntriesDown(pool, i) ==
    IF i >= PoolLen(pool) THEN <<>>
    ELSE EntriesDown(pool, i + 1)
         \o <<LABEL(MsgLabel(i)), DataWord(pool[i].len), DataAscii(pool[i].str)>>

\* the data section: the loop over strPool.pool
RECURSIVE DataEntries(_, _)
DataEntries(pool, i) ==
    IF i >= PoolLen(pool) THEN <<>>
    ELSE <<LABEL(MsgLabel(i)), DataWord(pool[i].len), DataAscii(pool[i].str)>>
         \o DataEntries(pool, i + 1)

StartProg(a) ==
    /\ ast = a
    /\ code = [i \in 1..Len(Procedures(a)) |->
                  FunctionDefCodeGen(Procedures(a)[i]).out]
    /\ pc = [i \in 1..Len(Procedures(a)) |-> 1]
    /\ msgs = [i \in 1..Len(Procedures(a)) |-> <<"", "">>]
    /\ strPool = <<>>
    /\ fsPool = {}
    /\ driver = "start"
    /\ fch = 1
    /\ iter = {}
    /\ builtin = NoBuiltin
    /\ txtInstr = <<>>
    /\ ch = <<>>
    /\ calls = <<>>
    /\ made = <<>>
    /\ prev = <<>>

\* a goroutine of FunctionDef.CodeGen performs a pool operation
ProcPool ==
    \E i \in 1..Len(code) :
        /\ pc[i] <= Len(code[i])
        /\ ~IsInstr(code[i][pc[i]])
        /\ PoolStep(code[i][pc[i]])
        /\ msgs' = [msgs EXCEPT ![i] = MsgsAfter(@, strPool, code[i][pc[i]])]
        /\ pc' = [pc EXCEPT ![i] = @ + 1]
        /\ UNCHANGED <<ast, code, driver, fch, iter, builtin, txtInstr, ch,
                       made, prev>>

\* ch <- &DataSegInstr{} and the two appends that open txtInstr
DriverStart ==
    /\ driver = "start"
    /\ ch' = <<DataSeg>>
    /\ txtInstr' = <<TextSeg, Global("main")>>
    /\ driver' = "procs"
    /\ UNCHANGED <<ast, code, pc, msgs, strPool, fsPool, fch, iter, builtin,
                   calls, made, prev>>

\* a goroutine of FunctionDef.CodeGen sends and the driver receives
ProcRecv ==
    /\ driver = "procs"
    /\ \E i \in 1..Len(code) :
        /\ Receiving(i)
        /\ pc[i] <= Len(code[i])
        /\ IsInstr(code[i][pc[i]])
        /\ txtInstr' = Append(txtInstr, Bound(code[i][pc[i]], msgs[i]))
        /\ pc' = [pc EXCEPT ![i] = @ + 1]
    /\ UNCHANGED <<ast, code, msgs, strPool, fsPool, driver, fch, iter,
                   builtin, ch, calls, made, prev>>

\* the channel being drained is closed: the next one, or the range over
\* fsPool.pool begins
ProcClosed ==
    /\ driver = "procs"
    /\ pc[fch] > Len(code[fch])
    /\ IF fch < Len(code)
       THEN /\ fch' = fch + 1
            /\ UNCHANGED <<driver, iter>>
       ELSE /\ driver' = "builtins"
            /\ iter' = fsPool
            /\ UNCHANGED fch
    /\ UNCHANGED <<ast, code, pc, msgs, strPool, fsPool, builtin, txtInstr,
                   ch, calls, made, prev>>

\* the range produces a key, in no order, and codeGenBuiltin starts its
\* generator
BuiltinStart ==
    /\ driver = "builtins"
    /\ builtin.name = ""
    /\ \E h \in iter :
        /\ builtin' = [name |-> h, pc |-> 1, msgs |-> <<"", "">>]
        /\ iter' = iter \ {h}
        /\ made' = Append(made, h)
    /\ UNCHANGED <<ast, code, pc, msgs, strPool, fsPool, driver, fch,
                   txtInstr, ch, calls, prev>>

\* the generator performs a pool operation; a key it adds to the map while
\* the range is under way is produced later or is not produced
BuiltinPool ==
    /\ builtin.name # ""
    /\ builtin.pc <= Len(FSMap(builtin.name))
    /\ ~IsInstr(FSMap(builtin.name)[builtin.pc])
    /\ PoolStep(FSMap(builtin.name)[builtin.pc])
    /\ builtin' = [builtin EXCEPT
                     !.msgs = MsgsAfter(@, strPool, FSMap(builtin.name)[builtin.pc]),
                     !.pc = @ + 1]
    /\ \/ iter' = iter
       \/ iter' = iter \cup (FsPoolAfter(fsPool, FSMap(builtin.name)[builtin.pc])
                                \ fsPool)
    /\ UNCHANGED <<ast, code, pc, msgs, driver, fch, txtInstr, ch, made, prev>>

\* the generator sends and the driver receives
BuiltinRecv ==
    /\ builtin.name # ""
    /\ builtin.pc <= Len(FSMap(builtin.name))
    /\ IsInstr(FSMap(builtin.name)[builtin.pc])
    /\ txtInstr' = Append(txtInstr,
                          Bound(FSMap(builtin.name)[builtin.pc], builtin.msgs))
    /\ builtin' = [builtin EXCEPT !.pc = @ + 1]
    /\ UNCHANGED <<ast, code, pc, msgs, strPool, fsPool, driver, fch, iter,
                   ch, calls, made, prev>>

\* close(ch) of codeGenBuiltin
BuiltinClosed ==
    /\ builtin.name # ""
    /\ builtin.pc > Len(FSMap(builtin.name))
    /\ builtin' = NoBuiltin
    /\ UNCHANGED <<ast, code, pc, msgs, strPool, fsPool, driver, fch, iter,
                   txtInstr, ch, calls, made, prev>>

\* the range over fsPool.pool ends and the strings are sent
SendData ==
    /\ driver = "builtins"
    /\ builtin.name = ""
    /\ iter = {}
    /\ ch' = ch \o DataEntries(strPool, 0)
    /\ driver' = "text"
    /\ UNCHANGED <<ast, code, pc, msgs, strPool, fsPool, fch, iter, builtin,
                   txtInstr, calls, made, prev>>

\* the buffered instructions are sent and ch is closed
SendText ==
    /\ driver = "text"
    /\ ch' = ch \o txtInstr
    /\ driver' = "done"
    /\ UNCHANGED <<ast, code, pc, msgs, strPool, fsPool, fch, iter, builtin,
                   txtInstr, calls, made, prev>>

\* the compiler is run once more on the same program
Rerun ==
    /\ driver = "done"
    /\ prev = <<>>
    /\ prev' = ch
    /\ pc' = [i \in 1..Len(code) |-> 1]
    /\ msgs' = [i \in 1..Len(code) |-> <<"", "">>]
    /\ strPool' = <<>>
    /\ fsPool' = {}
    /\ driver' = "start"
    /\ fch' = 1
    /\ iter' = {}
    /\ builtin' = NoBuiltin
    /\ txtInstr' = <<>>
    /\ ch' = <<>>
    /\ calls' = <<>>
    /\ made' = <<>>
    /\ UNCHANGED <<ast, code>>

(***************************************************************************)
(* Concurrent lookups on one StringPool.  callers[t] is a goroutine that   *)
(* calls Lookup8 or Lookup32 once: op is its call, at where it stands      *)
(* in the method, l its local l and ret the label it returned.  mutex is   *)
(* the caller holding the pool's lock, 0 when it is free.                  *)
(***************************************************************************)
VARIABLES callers, mutex

varsPool == <<callers, mutex>>

NumCallers == 3

\* the calls a caller may make
LookupCalls == {Lookup8Op(0, mPrintInt), Lookup32Op(0, <<"a", "\\", "n">>)}

\* a Lock that does not wait for the holder
MutexIgnored == TRUE

\* m.Lock() returns when no goroutine holds the lock
MutexFree == mutex = 0

\* m.Lock()
Lock(t) ==
    /\ callers[t].at = "lock"
    /\ MutexFree
    /\ mutex' = t
    /\ callers' = [callers EXCEPT ![t].at = "len"]
    /\ UNCHANGED strPool

\* l := len(m.pool)
ReadLen(t) ==
    /\ callers[t].at = "len"
    /\ callers' = [callers EXCEPT ![t].l = PoolLen(strPool), ![t].at = "put"]
    /\ UNCHANGED <<strPool, mutex>>

\* m.pool[l] = &DataString{...}
Put(t) ==
    /\ callers[t].at = "put"
    /\ strPool' = PoolPut(strPool, callers[t].l, Stored(callers[t].op))
    /\ callers' = [callers EXCEPT ![t].at = "return"]
    /\ UNCHANGED mutex

\* return fmt.Sprintf("msg_%d", l), then the deferred m.Unlock()
Return(t) ==
    /\ callers[t].at = "return"
    /\ callers' = [callers EXCEPT ![t].ret = MsgLabel(callers[t].l),
                                  ![t].at = "done"]
    /\ mutex' = IF mutex = t THEN 0 ELSE mutex
    /\ UNCHANGED strPool

InitPool ==
    /\ callers \in [1..NumCallers ->
                      {[op |-> o, at |-> "lock", l |-> 0, ret |-> ""] :
                          o \in LookupCalls}]
    /\ mutex = 0

(***************************************************************************)
(* Single operations.  arg is what an operation is applied to and res what *)
(* it left behind.                                                         *)
(***************************************************************************)
VARIABLES arg, res

varsUnit == <<arg, res>>

UnitAtRest ==
    /\ arg = <<>>
    /\ res = <<>>

(***************************************************************************)
(* Calls of GetReg and FreeReg on one allocator, in any order.  arg.alloc  *)
(* is the allocator and arg.n the number of calls made; res is the last    *)
(* call: its kind, the register r returned or passed, the allocator        *)
(* before it (pre) and the context it ended in (post).                     *)
(***************************************************************************)
MaxCalls == 5

InitAlloc ==
    /\ arg = [alloc |-> CreateRegAllocator, n |-> 0]
    /\ res = [kind |-> "none", r |-> 0, pre |-> CreateRegAllocator,
              post |-> Ctx(CreateRegAllocator)]

\* a call is made unless lowering was aborted
CanCall == arg.n < MaxCalls /\ ~res.post.panic

Called(kind, r, c) ==
    /\ res' = [kind |-> kind, r |-> r, pre |-> arg.alloc, post |-> c]
    /\ arg' = [alloc |-> AllocOf(c), n |-> arg.n + 1]

\* alloc.GetReg(insch)
CallGetReg ==
    /\ CanCall
    /\ Called("get", NextReg(Ctx(arg.alloc)), GetReg(Ctx(arg.alloc)))

\* alloc.FreeReg(r, insch) for a general purpose register r
CallFreeReg ==
    /\ CanCall
    /\ \E r \in GenRegs : Called("free", r, FreeReg(Ctx(arg.alloc), r))

(***************************************************************************)
(* The machine the emitted code runs on.  A machine state m has the        *)
(* registers (reg), the stack from its base to the word sp points at       *)
(* (stack), the operands of the last comparison (cmp), the registers and   *)
(* stack at every call of a procedure (calls), and ok, which is false      *)
(* once an instruction was met whose effect the machine does not           *)
(* describe (an access to the heap, the address of a stack slot).          *)
(***************************************************************************)
MachineRegs == {RegName(n) : n \in 0..11} \cup {"lr", "ip", "pc"}

\* the procedures of the run-time system and the helpers: they return with
\* the registers of the allocator and the stack as they were
Routines == HelperLabels \cup {mPutChar, mFFlush, mPrintf, mScanf, mFreeLabel,
                               mExitLabel, mMalloc}

\* what the procedure called at l returns in r0
ReturnedValue(l) == 77

SetReg(m, r, v) == [m EXCEPT !.reg[r] = v]

Unknown(m) == [m EXCEPT !.ok = FALSE]

\* the stack slot [sp, #off]
SlotAt(m, off) == Len(m.stack) - (off \div 4)

HasSlot(m, off) == off >= 0 /\ off % 4 = 0 /\ SlotAt(m, off) >= 1

\* PUSH {rs}: the first register of the list ends at the lowest address
RECURSIVE PushRegs(_, _, _)
PushRegs(m, rs, i) ==
    IF i < 1 THEN m
    ELSE PushRegs([m EXCEPT !.stack = Append(@, m.reg[rs[i]])], rs, i - 1)

\* POP {rs}
RECURSIVE PopRegs(_, _, _)
PopRegs(m, rs, i) ==
    IF i > Len(rs) THEN m
    ELSE IF m.stack = <<>> THEN Unknown(m)
    ELSE PopRegs([m EXCEPT !.reg[rs[i]] = m.stack[Len(m.stack)],
                           !.stack = SubSeq(@, 1, Len(@) - 1)],
                 rs, i + 1)

\* ADD sp, sp, #n
DropWords(m, n) ==
    IF n % 4 = 0 /\ n \div 4 <= Len(m.stack)
    THEN [m EXCEPT !.stack = SubSeq(@, 1, Len(@) - n \div 4)]
    ELSE Unknown(m)

\* SUB sp, sp, #n
RECURSIVE ReserveWords(_, _)
ReserveWords(m, n) ==
    IF n <= 0 THEN m
    ELSE ReserveWords([m EXCEPT !.stack = Append(@, 0)], n - 4)

\* whether the condition code holds after CMP a, b
CondHolds(cond, cmp) ==
    CASE cond = ""   -> TRUE
      [] cond = "EQ" -> cmp[1] = cmp[2]
      [] cond = "NE" -> cmp[1] # cmp[2]
      [] cond = "LT" -> cmp[1] < cmp[2]
      [] cond = "LE" -> cmp[1] <= cmp[2]
      [] cond = "GT" -> cmp[1] > cmp[2]
      [] cond = "GE" -> cmp[1] >= cmp[2]
      [] OTHER -> FALSE

\* BL l
Branched(m, l) ==
    CASE l = "__aeabi_idiv" ->
           IF m.reg["r1"] > 0 /\ m.reg["r0"] >= 0
           THEN SetReg(m, "r0", m.reg["r0"] \div m.reg["r1"])
           ELSE Unknown(m)
      [] l = "__aeabi_idivmod" ->
           IF m.reg["r1"] > 0 /\ m.reg["r0"] >= 0
           THEN [m EXCEPT !.reg["r0"] = m.reg["r0"] \div m.reg["r1"],
                          !.reg["r1"] = m.reg["r0"] % m.reg["r1"]]
           ELSE Unknown(m)
      [] l = mMalloc -> SetReg(m, "r0", 1000)
      [] l \in Routines -> m
      [] OTHER ->
           [m EXCEPT !.calls = Append(@, [reg |-> m.reg, stack |-> m.stack]),
                     !.reg["r0"] = ReturnedValue(l),
                     !.reg["r1"] = 0, !.reg["r2"] = 0, !.reg["r3"] = 0]

\* the effect of one instruction
Step(m, i) ==
    CASE i.op = "PUSH" -> PushRegs(m, i.r, Len(i.r))
      [] i.op = "POP"  -> PopRegs(m, i.r, 1)
      [] i.op = "MOV" /\ Len(i.r) = 2 ->
           IF i.r[2] = "sp" THEN Unknown(m) ELSE SetReg(m, i.r[1], m.reg[i.r[2]])
      [] i.op = "MOV" /\ Len(i.r) = 1 ->
           IF CondHolds(i.cond, m.cmp) THEN SetReg(m, i.r[1], i.n) ELSE m
      [] i.op = "LDRC" -> SetReg(m, i.r[1], i.n)
      [] i.op = "ADD" /\ Len(i.r) = 2 ->
           IF i.r[1] = "sp" /\ i.r[2] = "sp" THEN DropWords(m, i.n)
           ELSE IF i.r[2] = "sp" THEN Unknown(m)
           ELSE SetReg(m, i.r[1], m.reg[i.r[2]] + i.n)
      [] i.op = "SUB" /\ Len(i.r) = 2 ->
           IF i.r[1] = "sp" /\ i.r[2] = "sp" THEN ReserveWords(m, i.n)
           ELSE SetReg(m, i.r[1], m.reg[i.r[2]] - i.n)
      [] i.op = "ADD" /\ Len(i.r) = 3 ->
           SetReg(m, i.r[1], m.reg[i.r[2]] + m.reg[i.r[3]])
      [] i.op = "SUB" /\ Len(i.r) = 3 ->
           SetReg(m, i.r[1], m.reg[i.r[2]] - m.reg[i.r[3]])
      [] i.op = "SMULL" ->
           [m EXCEPT !.reg[i.r[1]] = m.reg[i.r[3]] * m.reg[i.r[4]],
                     !.reg[i.r[2]] = 0]
      [] i.op = "NEG" -> SetReg(m, i.r[1], 0 - m.reg[i.r[2]])
      [] i.op = "EOR" -> SetReg(m, i.r[1], 1 - m.reg[i.r[2]])
      [] i.op = "AND" ->
           SetReg(m, i.r[1], IF m.reg[i.r[2]] = 1 /\ m.reg[i.r[3]] = 1 THEN 1 ELSE 0)
      [] i.op = "ORR" ->
           SetReg(m, i.r[1], IF m.reg[i.r[2]] = 1 \/ m.reg[i.r[3]] = 1 THEN 1 ELSE 0)
      [] i.op = "CMP" /\ Len(i.r) = 1 -> [m EXCEPT !.cmp = <<m.reg[i.r[1]], i.n>>]
      [] i.op = "CMP" /\ Len(i.r) = 2 ->
           [m EXCEPT !.cmp = <<m.reg[i.r[1]], m.reg[i.r[2]]>>]
      [] i.op = "LDR" ->
           IF i.r[2] = "sp" /\ HasSlot(m, i.n)
           THEN SetReg(m, i.r[1], m.stack[SlotAt(m, i.n)])
           ELSE Unknown(m)
      [] i.op = "STR" ->
           IF i.r[2] = "sp" /\ HasSlot(m, i.n)
           THEN [m EXCEPT !.stack[SlotAt(m, i.n)] = m.reg[i.r[1]]]
           ELSE Unknown(m)
      [] i.op = "BL" -> IF CondHolds(i.cond, m.cmp) THEN Branched(m, i.l) ELSE m
      [] i.op \in {"B", "ADDLSL", "LDRL"} -> Unknown(m)
      [] OTHER -> m

\* the instructions of is from position k on, one after the other, up to
\* the first the machine cannot execute
RECURSIVE Exec(_, _, _)
Exec(m, is, k) ==
    IF k > Len(is) \/ ~m.ok THEN m ELSE Exec(Step(m, is[k]), is, k + 1)

(***************************************************************************)
(* The lowering of one expression and the run of the code it yields.       *)
(* arg.e is the expression and arg.held the number of registers the        *)
(* allocator has handed out when the lowering begins, the last of them     *)
(* being the target.  The variables x and a are in scope.  res.stage tells *)
(* how far the input has come: lowered (res.out is the code, res.peak the  *)
(* greatest number of registers held at once, res.post the allocator) and  *)
(* then run (res.m is the machine after the code).                         *)
(***************************************************************************)
MaxTaken == 8

IntLit(v) == [k |-> "int", v |-> v]

\* the value a variable holds when the code runs
VarValue(id) == IF id = "x" THEN 5 ELSE 0

Light == {IntLit(7), IntLit(2), Var("x")}

Heavy == {Bin("add", IntLit(7), IntLit(2)), Bin("mul", IntLit(2), Var("x"))}

Operands == (Light \X Light) \cup (Heavy \X Light) \cup (Light \X Heavy)

ValueOps == {"add", "sub", "mul", "div", "mod"} \cup CmpOps

Exprs ==
    {Bin(op, p[1], p[2]) : op \in ValueOps, p \in Operands}
    \cup {Un("neg", e) : e \in Light}
    \cup {Elem("a", <<e>>) : e \in Light \cup Heavy}
    \cup {[k |-> "newpair", fst |-> e, snd |-> IntLit(2)] : e \in Light \cup Heavy}

\* the value of an expression without array or pair
RECURSIVE Eval(_)
Eval(e) ==
    CASE e.k = "int" -> e.v
      [] e.k = "ident" -> VarValue(e.id)
      [] e.k = "neg" -> 0 - Eval(e.e)
      [] e.k = "add" -> Eval(e.l) + Eval(e.r)
      [] e.k = "sub" -> Eval(e.l) - Eval(e.r)
      [] e.k = "mul" -> Eval(e.l) * Eval(e.r)
      [] e.k = "div" -> Eval(e.l) \div Eval(e.r)
      [] e.k = "mod" -> Eval(e.l) % Eval(e.r)
      [] e.k = "gt" -> IF Eval(e.l) > Eval(e.r) THEN 1 ELSE 0
      [] e.k = "ge" -> IF Eval(e.l) >= Eval(e.r) THEN 1 ELSE 0
      [] e.k = "lt" -> IF Eval(e.l) < Eval(e.r) THEN 1 ELSE 0
      [] e.k = "le" -> IF Eval(e.l) <= Eval(e.r) THEN 1 ELSE 0
      [] e.k = "eq" -> IF Eval(e.l) = Eval(e.r) THEN 1 ELSE 0
      [] e.k = "ne" -> IF Eval(e.l) # Eval(e.r) THEN 1 ELSE 0

ClearOut(c) == [c EXCEPT !.out = <<>>, !.ss = <<>>, !.us = <<>>]

\* the allocator of a procedure f in whose body x and a are declared
ExprBase ==
    DeclareVar(DeclareVar(StartScope(Ctx([CreateRegAllocator EXCEPT !.fname = "f"])),
                          "x"),
               "a")

\* the allocator after k calls of GetReg
RECURSIVE Taken(_)
Taken(k) == IF k = 0 THEN ClearOut(ExprBase) ELSE GetReg(Taken(k - 1))

\* the register handed out last
TargetOf(c) == c.regs[Len(c.regs)]

\* the machine when the body of f begins: every register holds a value of
\* its own, x and a are on the stack
StartMachine ==
    [reg |-> [r \in MachineRegs |->
                 IF \E n \in 0..11 : RegName(n) = r
                 THEN 100 + (CHOOSE n \in 0..11 : RegName(n) = r)
                 ELSE 100],
     stack |-> <<VarValue("x"), VarValue("a")>>,
     cmp |-> <<0, 0>>,
     calls |-> <<>>,
     ok |-> TRUE]

\* the machine after the code of the k calls of GetReg
MachineAt(k) == Exec(StartMachine, Taken(k).out, 1)

InitExpr ==
    /\ arg \in {[held |-> k, e |-> e] : k \in {1, MaxTaken}, e \in Exprs}
    /\ res = [stage |-> "input"]

\* for each instruction c has sent, the registers whose usage count stood
\* above that of base at the send: those the lowering had acquired and not
\* yet released
OwnAt(c, base) ==
    LET idx == SelectSeq([k \in 1..Len(c.out) |-> k],
                         LAMBDA k : IsInstr(c.out[k]))
    IN  [j \in 1..Len(idx) |->
            {r \in GenRegs : c.us[idx[j]][r] > base.usage[r]}]

\* e.CodeGen(alloc, target, insch)
LowerExpr ==
    /\ res.stage = "input"
    /\ LET c == ExprCodeGen(ClearOut(Taken(arg.held)), arg.e,
                            TargetOf(Taken(arg.held)))
       IN  res' = [stage |-> "lowered", out |-> SelectSeq(c.out, IsInstr),
                   peak |-> c.peak, post |-> AllocOf(c), panic |-> c.panic,
                   own |-> OwnAt(c, Taken(arg.held))]
    /\ UNCHANGED arg

\* the code runs
RunCode ==
    /\ res.stage = "lowered"
    /\ res' = [stage |-> "run", out |-> res.out, peak |-> res.peak,
               post |-> res.post, panic |-> res.panic,
               m |-> Exec(MachineAt(arg.held), res.out, 1)]
    /\ UNCHANGED arg

(***************************************************************************)
(* One call, lowered from an allocator with some registers held and run.   *)
(***************************************************************************)
MaxArgs == 5

ArgExprs == {IntLit(7), Var("x")}

ArgLists == UNION {[1..n -> ArgExprs] : n \in 0..MaxArgs}

InitCall ==
    /\ arg \in {[held |-> k, e |-> Call("g", as)] :
                    k \in {1, 2, MaxTaken}, as \in ArgLists}
    /\ res = [stage |-> "input"]

\* m.CodeGen(alloc, target, insch) of a FunctionCallRHS
LowerCall ==
    /\ res.stage = "input"
    /\ LET c == FunctionCallRHS(ClearOut(Taken(arg.held)), arg.e,
                                TargetOf(Taken(arg.held)))
       IN  res' = [stage |-> "lowered", out |-> SelectSeq(c.out, IsInstr),
                   peak |-> c.peak, post |-> AllocOf(c), panic |-> c.panic]
    /\ UNCHANGED arg

\* the code of the call runs
RunCall ==
    /\ res.stage = "lowered"
    /\ res' = [stage |-> "called", out |-> res.out, peak |-> res.peak,
               post |-> res.post, panic |-> res.panic,
               m |-> Exec(MachineAt(arg.held), res.out, 1)]
    /\ UNCHANGED arg

(***************************************************************************)
(* The compiler driver: main of wacc.go, one stage at a time.  arg is what *)
(* the command line and the input file are like, res.at the stage main is  *)
(* about to run, res.exit the status the process has exited with (Running  *)
(* while it has not), res.ran the stages run so far and res.written        *)
(* whether assembly has been written.                                      *)
(***************************************************************************)
exitSyntax == 100
exitSemantic == 200

\* the status of a process that has not exited
Running == -1

\* flag.Parse of the standard library leaves with this status when the
\* command line holds a flag that is not defined
exitFlagPackage == 2

\* log.Fatal leaves with this status
exitLogFatal == 1

\* command lines: -file names a file, no -file at all, an undefined flag
CommandLines == {"file", "nofile", "badflag"}

Inputs ==
    {i \in [args : CommandLines, readable : BOOLEAN, syntax : BOOLEAN,
            tree : BOOLEAN, paths : BOOLEAN, types : BOOLEAN,
            optimise : BOOLEAN, printAssembly : BOOLEAN,
            noassembly : BOOLEAN, creatable : BOOLEAN] :
        \* os.Open of the empty name fails
        i.args = "nofile" => ~i.readable}

InitMain ==
    /\ arg \in Inputs
    /\ res = [at |-> "flags", exit |-> Running, ran |-> <<>>, written |-> FALSE]

Exit(status, stage) ==
    res' = [res EXCEPT !.at = "exited", !.exit = status,
                       !.ran = IF stage = "" THEN @ ELSE Append(@, stage)]

Goto(next, stage) ==
    res' = [res EXCEPT !.at = next,
                       !.ran = IF stage = "" THEN @ ELSE Append(@, stage)]

\* flags.Parse() and flags.Start()
FlagsParse ==
    /\ res.at = "flags"
    /\ IF arg.args = "badflag" THEN Exit(exitFlagPackage, "") ELSE Goto("include", "")
    /\ UNCHANGED arg

\* ifm.Include(flags.filename)
Include ==
    /\ res.at = "include"
    /\ Goto("parse", "")
    /\ UNCHANGED arg

\* parseInput(flags.filename)
parseInput ==
    /\ res.at = "parse"
    /\ IF ~arg.readable THEN Exit(exitSyntax, "parse")
       ELSE IF ~arg.syntax THEN Exit(exitSyntax, "parse")
       ELSE Goto("ast", "parse")
    /\ UNCHANGED arg

\* generateASTFromWACC(wacc, ifm)
generateASTFromWACC ==
    /\ res.at = "ast"
    /\ IF ~arg.tree THEN Exit(exitSyntax, "ast")
       ELSE IF ~arg.paths THEN Exit(exitSyntax, "ast")
       ELSE Goto("semantic", "ast")
    /\ UNCHANGED arg

\* semanticAnalysis(ast)
semanticAnalysis ==
    /\ res.at = "semantic"
    /\ IF ~arg.types THEN Exit(exitSemantic, "semantic")
       ELSE Goto(IF arg.optimise THEN "optimise" ELSE "codegen", "semantic")
    /\ UNCHANGED arg

\* optimise(ast), under flags.optimise
optimise ==
    /\ res.at = "optimise"
    /\ Goto("codegen", "optimise")
    /\ UNCHANGED arg

\* flags.PrintPrettyAST(ast) and codeGeneration(ast, flags)
codeGeneration ==
    /\ res.at = "codegen"
    /\ IF ~arg.printAssembly /\ ~arg.creatable
       THEN Exit(exitLogFatal, "codegen")
       ELSE res' = [res EXCEPT !.at = "finish", !.ran = Append(@, "codegen"),
                               !.written = ~arg.noassembly]
    /\ UNCHANGED arg

\* flags.Finish() and the return of main
Finish ==
    /\ res.at = "finish"
    /\ Exit(0, "")
    /\ UNCHANGED arg

(***************************************************************************)
(* One string literal, handed to Lookup32 of an empty pool.  The literal   *)
(* is in the form the assembler reads: arg.chars is the literal, one       *)
(* source character after the other, each either a plain character or an   *)
(* escape sequence of a backslash and the character escaped.               *)
(***************************************************************************)
MaxChars == 4

EscapeForms == {<<"a">>, <<"\\", "n">>, <<"\\", "\\">>}

Literals == UNION {[1..n -> EscapeForms] : n \in 0..MaxChars}

\* the literal byte by byte, as Lookup32 reads it
RECURSIVE Bytes(_)
Bytes(cs) == IF cs = <<>> THEN <<>> ELSE Head(cs) \o Bytes(Tail(cs))

InitString ==
    /\ arg \in {[chars |-> cs] : cs \in Literals}
    /\ res = [stage |-> "input"]

\* alloc.stringPool.Lookup32(msg)
LookupString ==
    /\ res.stage = "input"
    /\ res' = [stage |-> "stored", pool |-> Lookup32(<<>>, Bytes(arg.chars))]
    /\ UNCHANGED arg

(***************************************************************************)
(* The allocator under the discipline of lowering.  arg.alloc is the       *)
(* allocator of a procedure whose body has left some registers held,       *)
(* arg.work what an unfinished statement has taken and not yet given back  *)
(* (registers and pushed arguments, the last taken last), and arg.mem the  *)
(* words the emitted code has put on the stack since the body began, the   *)
(* word at [sp] last.  res is the last call: its kind, the allocator       *)
(* before it and what it sent.  Scopes are opened, closed and declared in  *)
(* between statements only, and no scope declares a name twice.            *)
(***************************************************************************)
MaxLeaked == 8
MaxScopes == 3
MaxWork == 3

ScopeIds == {"x", "y"}

\* the allocator after the body has left k registers held
RECURSIVE Leaked(_)
Leaked(k) ==
    IF k = 0 THEN StartScope(Ctx(CreateRegAllocator)) ELSE GetReg(Leaked(k - 1))

\* a word of the stack: the variable it was reserved for, or a pushed value
Word(k, id, level) == [k |-> k, id |-> id, level |-> level]

Pushed == Word("pushed", "", 0)

\* the stack after instruction i; a word reserved by SUB sp is tagged tag
MemStep(mem, i, tag) ==
    CASE i.op = "PUSH" -> mem \o [j \in 1..Len(i.r) |-> Pushed]
      [] i.op = "POP" -> SubSeq(mem, 1, Len(mem) - Len(i.r))
      [] i.op = "SUB" /\ i.r = <<"sp", "sp">> ->
           mem \o [j \in 1..(i.n \div 4) |-> tag]
      [] i.op = "ADD" /\ i.r = <<"sp", "sp">> ->
           SubSeq(mem, 1, Len(mem) - (i.n \div 4))
      [] OTHER -> mem

RECURSIVE MemAfter(_, _, _, _)
MemAfter(mem, is, k, tag) ==
    IF k > Len(is) THEN mem
    ELSE MemAfter(MemStep(mem, is[k], tag), is, k + 1, tag)

InitScopes ==
    /\ arg \in {[alloc |-> AllocOf(Leaked(k)),
                  mem |-> MemAfter(<<>>, SelectSeq(Leaked(k).out, IsInstr), 1, Pushed),
                  work |-> <<>>] : k \in {0, MaxLeaked - 1, MaxLeaked}}
    /\ res = [kind |-> "none", pre |-> arg.alloc, out |-> <<>>]

\* what a call leaves behind, given the context c it ended in
Did(kind, c, tag, work) ==
    /\ ~c.panic
    /\ arg' = [alloc |-> AllocOf(c),
               mem |-> MemAfter(arg.mem, SelectSeq(c.out, IsInstr), 1, tag),
               work |-> work]
    /\ res' = [kind |-> kind, pre |-> arg.alloc,
               out |-> SelectSeq(c.out, IsInstr)]

\* the register acquired last and still held
LastTaken == arg.alloc.regs[Len(arg.alloc.regs)]

AllButLast(w) == SubSeq(w, 1, Len(w) - 1)

\* the arguments pushed last and not yet dropped
RECURSIVE ArgsOnTop(_)
ArgsOnTop(w) ==
    IF w # <<>> /\ w[Len(w)] = "arg" THEN 1 + ArgsOnTop(AllButLast(w)) ELSE 0

\* alloc.GetReg(insch) inside a statement
ScopeGetReg ==
    /\ Len(arg.work) < MaxWork
    /\ Did("get", GetReg(Ctx(arg.alloc)), Pushed, Append(arg.work, "reg"))

\* alloc.FreeReg(r, insch) of the register acquired last
ScopeFreeReg ==
    /\ arg.work # <<>>
    /\ arg.work[Len(arg.work)] = "reg"
    /\ Did("free", FreeReg(Ctx(arg.alloc), LastTaken), Pushed, AllButLast(arg.work))

\* r := alloc.GetReg(insch); alloc.FreeReg(r, insch)
GetThenFree ==
    Did("pair",
        FreeReg(GetReg(Ctx(arg.alloc)), NextReg(Ctx(arg.alloc))),
        Pushed, arg.work)

\* one round of the first loop of FunctionCallRHS
ScopePushArg ==
    /\ Len(arg.work) < MaxWork
    /\ Did("arg",
           CallPushArg(GetReg(Ctx(arg.alloc)), IntLit(1), NextReg(Ctx(arg.alloc))),
           Pushed, Append(arg.work, "arg"))

\* the end of FunctionCallRHS: the arguments leave the stack
ScopeDropArgs ==
    /\ ArgsOnTop(arg.work) > 0
    /\ LET n == ArgsOnTop(arg.work)
           as == [j \in 1..n |-> IntLit(1)]
       IN  Did("drop",
               PopStack(CallDropArgs(CallPopArgs(Ctx(arg.alloc), as, 0), n), n * 4),
               Pushed, SubSeq(arg.work, 1, Len(arg.work) - n))

\* alloc.StartScope(insch)
ScopeStart ==
    /\ arg.work = <<>>
    /\ Len(arg.alloc.stack) < MaxScopes
    /\ Did("start", StartScope(Ctx(arg.alloc)), Pushed, <<>>)

\* alloc.DeclareVar(ident, insch)
ScopeDeclare ==
    /\ arg.work = <<>>
    /\ \E x \in ScopeIds \ DOMAIN arg.alloc.stack[1] :
          Did("declare", DeclareVar(Ctx(arg.alloc), x),
              Word("var", x, Len(arg.alloc.stack)), <<>>)

\* alloc.CleanupScope(insch)
ScopeCleanup ==
    /\ arg.work = <<>>
    /\ Len(arg.alloc.stack) > 1
    /\ Did("cleanup", CleanupScope(Ctx(arg.alloc)), Pushed, <<>>)

(***************************************************************************)
(* One scope of n variables above an outer scope, cleaned up.              *)
(***************************************************************************)
MaxScopeVars == 130

\* the name of the i-th variable of the scope
VarName(i) == "v" \o ToString(i)

\* the scope after n declarations that began at stackSize base
ScopeOf(n, base) ==
    [id \in {VarName(i) : i \in 1..n} |->
        base + 4 * (CHOOSE i \in 1..n : VarName(i) = id)]

OuterScopes ==
    {EmptyScope, Bind(EmptyScope, "x", 4), Bind(Bind(EmptyScope, "x", 4), "y", 8)}

InitCleanup ==
    /\ arg \in {[alloc |-> [CreateRegAllocator EXCEPT
                               !.stack = <<ScopeOf(n, ScopeBytes([stack |-> <<o>>])), o>>,
                               !.stackSize = ScopeBytes([stack |-> <<o>>]) + 4 * n],
                  n |-> n] : n \in 0..MaxScopeVars, o \in OuterScopes}
    /\ res = [stage |-> "input"]

\* alloc.CleanupScope(insch)
CleanupOnce ==
    /\ res.stage = "input"
    /\ LET c == CleanupScope(Ctx(arg.alloc))
       IN  res' = [stage |-> "cleaned", out |-> c.out, post |-> AllocOf(c)]
    /\ UNCHANGED arg

(***************************************************************************)
(* A procedure g of n parameters, called and entered.  The caller lowers   *)
(* call g(a0, ..., an-1) and its code runs up to the BL; there the         *)
(* prologue of g runs, and then the body takes registers and declares      *)
(* variables.  res.c is the allocator of g with what it has sent, res.m    *)
(* the machine.                                                            *)
(***************************************************************************)
MaxParams == 6
MaxBody == 3

ParamName(i) == "p" \o ToString(i)

\* the value the caller passes for parameter i
ArgValue(i) == 10 + i

Callee(n) ==
    [ident |-> "g", params |-> [i \in 1..n |-> ParamName(i - 1)],
     main |-> FALSE, body |-> <<>>]

\* the caller's code for the call, lowered with its target held
CallerCode(n) ==
    SelectSeq(FunctionCallRHS(ClearOut(Taken(1)),
                              Call("g", [i \in 1..n |-> IntLit(ArgValue(i - 1))]),
                              TargetOf(Taken(1))).out,
              IsInstr)

\* the machine as g finds it
MachineAtEntry(n) ==
    [reg |-> Exec(MachineAt(1), CallerCode(n), 1).calls[1].reg,
     stack |-> Exec(MachineAt(1), CallerCode(n), 1).calls[1].stack,
     cmp |-> <<0, 0>>, calls |-> <<>>, ok |-> TRUE]

InitParams ==
    /\ arg \in {[n |-> n] : n \in 0..MaxParams}
    /\ res = [stage |-> "called", steps |-> 0]

\* FunctionDef.CodeGen up to the lowering of the body, and its code
EnterProcedure ==
    /\ res.stage = "called"
    /\ res' = [stage |-> "body", steps |-> 0,
               c |-> ClearOut(FunctionOpen(Callee(arg.n))),
               m |-> Exec(MachineAtEntry(arg.n),
                          SelectSeq(FunctionOpen(Callee(arg.n)).out, IsInstr), 1)]
    /\ UNCHANGED arg

\* the body goes on to the context c, and the code sent on the way runs
BodyDoes(c) ==
    /\ ~c.panic
    /\ res' = [stage |-> "body", steps |-> res.steps + 1,
               c |-> ClearOut(c),
               m |-> Exec(res.m, SelectSeq(c.out, IsInstr), 1)]
    /\ UNCHANGED arg

BodyCan == res.stage = "body" /\ res.steps < MaxBody

\* the body declares a variable
BodyDeclares ==
    /\ BodyCan
    /\ \E x \in ScopeIds \ DOMAIN res.c.stack[1] : BodyDoes(DeclareVar(res.c, x))

\* the body acquires a register
BodyGetReg ==
    /\ BodyCan
    /\ BodyDoes(GetReg(res.c))

\* the body comes to hold all eight registers
BodyHoldsAll ==
    /\ BodyCan
    /\ HeldRegs(res.c.usage) = 0
    /\ BodyDoes(GetReg(GetReg(GetReg(GetReg(GetReg(GetReg(GetReg(GetReg(res.c)))))))))

\* the body opens a scope
BodyStartScope ==
    /\ BodyCan
    /\ BodyDoes(StartScope(res.c))

(***************************************************************************)
(* parseExpr, token by token.  res.p holds the expression stack and the    *)
(* operator stack of the shunting yard (an operator is on the operator     *)
(* stack by its kind, a parenthesis as "paren"); arg is where the token    *)
(* stream stands: whether an operand or an operator comes next, how many   *)
(* parentheses are open, how many have been closed and how many tokens     *)
(* have been read.  The stream is one the grammar admits.                  *)
(***************************************************************************)
MaxTokens == 7

TokenOperators == {"neg", "mul", "add", "or"}

TokenOperands == {IntLit(1), Var("x")}

ExprParen == [k |-> "paren"]

prio(k) ==
    CASE k \in UnaryOps -> 2
      [] k \in {"mul", "div", "mod"} -> 3
      [] k \in {"add", "sub"} -> 4
      [] k \in {"gt", "ge", "lt", "le"} -> 6
      [] k \in {"eq", "ne"} -> 7
      [] k = "and" -> 11
      [] k = "or" -> 12
      [] k = "paren" -> 13
      [] OTHER -> 42

rightAssoc(k) == k \in UnaryOps

push(p, e) == [p EXCEPT !.stack = Append(@, e)]

pushop(p, k) == [p EXCEPT !.opstack = Append(@, k)]

peekop(p) == IF p.opstack = <<>> THEN "" ELSE p.opstack[Len(p.opstack)]

\* the parenthesis is pushed as an expression instead of being dropped
popopKeep(p) ==
    LET op == p.opstack[Len(p.opstack)]
        n == Len(p.stack)
        ops == SubSeq(p.opstack, 1, Len(p.opstack) - 1)
    IN  IF op \in UnaryOps
        THEN [stack |-> Append(SubSeq(p.stack, 1, n - 1), Un(op, p.stack[n])),
              opstack |-> ops]
        ELSE IF op \in BinaryOps
        THEN [stack |-> Append(SubSeq(p.stack, 1, n - 2),
                               Bin(op, p.stack[n - 1], p.stack[n])),
              opstack |-> ops]
        ELSE [stack |-> Append(p.stack, ExprParen), opstack |-> ops]

\* the operator on top of the operator stack takes its operands from the
\* expression stack and is pushed there; a parenthesis is dropped
popop(p) ==
    LET op == p.opstack[Len(p.opstack)]
        n == Len(p.stack)
        ops == SubSeq(p.opstack, 1, Len(p.opstack) - 1)
    IN  IF op \in UnaryOps
        THEN [stack |-> Append(SubSeq(p.stack, 1, n - 1), Un(op, p.stack[n])),
              opstack |-> ops]
        ELSE IF op \in BinaryOps
        THEN [stack |-> Append(SubSeq(p.stack, 1, n - 2),
                               Bin(op, p.stack[n - 1], p.stack[n])),
              opstack |-> ops]
        ELSE [stack |-> p.stack, opstack |-> ops]

\* the loop op2l: the operators that bind more tightly than op1 are popped
RECURSIVE PopTighter(_, _)
PopTighter(p, op1) ==
    IF /\ p.opstack # <<>>
       /\ \/ ~rightAssoc(op1) /\ prio(op1) >= prio(peekop(p))
          \/ rightAssoc(op1) /\ prio(op1) > prio(peekop(p))
    THEN PopTighter(popop(p), op1)
    ELSE p

\* the loop parloop: everything down to the parenthesis is popped, and the
\* parenthesis with it
RECURSIVE PopToParen(_)
PopToParen(p) ==
    IF peekop(p) = "paren" THEN popop(p) ELSE PopToParen(popop(p))

\* the operators left when the tokens end are popped
RECURSIVE PopAll(_)
PopAll(p) == IF p.opstack = <<>> THEN p ELSE PopAll(popop(p))

InitParse ==
    /\ arg = [expect |-> "operand", depth |-> 0, closed |-> 0, n |-> 0]
    /\ res = [stage |-> "tokens", p |-> [stack |-> <<>>, opstack |-> <<>>]]

MoreTokens == res.stage = "tokens" /\ arg.n < MaxTokens

\* a literal or an identifier
TokenOperand ==
    /\ MoreTokens
    /\ arg.expect = "operand"
    /\ \E e \in TokenOperands : res' = [res EXCEPT !.p = push(@, e)]
    /\ arg' = [arg EXCEPT !.expect = "operator", !.n = @ + 1]

\* ruleUNARYOPER, ruleBINARYOPER
TokenOperator ==
    /\ MoreTokens
    /\ \E op \in TokenOperators :
          /\ IF op \in UnaryOps THEN arg.expect = "operand"
                                ELSE arg.expect = "operator"
          /\ res' = [res EXCEPT !.p = pushop(PopTighter(@, op), op)]
    /\ arg' = [arg EXCEPT !.expect = "operand", !.n = @ + 1]

\* ruleLPAR
TokenLPar ==
    /\ MoreTokens
    /\ arg.expect = "operand"
    /\ res' = [res EXCEPT !.p = pushop(@, "paren")]
    /\ arg' = [arg EXCEPT !.depth = @ + 1, !.n = @ + 1]

\* ruleRPAR
TokenRPar ==
    /\ MoreTokens
    /\ arg.expect = "operator"
    /\ arg.depth > 0
    /\ res' = [res EXCEPT !.p = PopToParen(@)]
    /\ arg' = [arg EXCEPT !.depth = @ - 1, !.closed = @ + 1, !.n = @ + 1]

\* the stream ends and parseExpr returns pop()
EndOfTokens ==
    /\ res.stage = "tokens"
    /\ arg.expect = "operator"
    /\ arg.depth = 0
    /\ res' = [stage |-> "parsed", p |-> PopAll(res.p),
               tree |-> PopAll(res.p).stack[Len(PopAll(res.p).stack)]]
    /\ UNCHANGED arg

(***************************************************************************)
(* A declaration in a nested scope.  A procedure f binds x, as its         *)
(* parameter or by a declaration at the top of its body, with the value    *)
(* VarValue("x"); arg.depth scopes are opened and the statement            *)
(* `int id = e` is lowered in the innermost.  arg.stale is what the word   *)
(* that SUB sp, sp, #4 reserves held before: the code has not written it.  *)
(* res.c is the context after the statement and res.m the machine after    *)
(* its code.                                                               *)
(***************************************************************************)
MaxDepth == 2

\* what a word of the stack below sp may hold
StaleWords == {0, 9}

\* the initialisers
SelfExprs ==
    {IntLit(7), Var("x"), Bin("add", Var("x"), IntLit(2)),
     Bin("sub", IntLit(7), Var("x")), Un("neg", Var("x"))}

Declarer(outer) ==
    [ident |-> "f", params |-> IF outer = "param" THEN <<"x">> ELSE <<>>,
     main |-> FALSE, body |-> <<>>]

\* the enclosing binding of x: a parameter, or a declaration in the body
OuterBinding(outer) ==
    IF outer = "param" THEN FunctionOpen(Declarer(outer))
    ELSE DeclareAssignStatement(FunctionOpen(Declarer(outer)),
                                [k |-> "declare", id |-> "x",
                                 rhs |-> IntLit(VarValue("x"))])

RECURSIVE Nested(_, _)
Nested(c, depth) == IF depth = 0 THEN c ELSE StartScope(Nested(c, depth - 1))

\* the machine as f finds it: the first argument is in r0
MachineAtF ==
    [StartMachine EXCEPT !.reg["r0"] = VarValue("x"), !.stack = <<>>]

\* the word at sp holds w
Stale(m, w) ==
    IF m.stack = <<>> THEN m ELSE [m EXCEPT !.stack[Len(m.stack)] = w]

InitDeclare ==
    /\ arg \in {[outer |-> o, depth |-> d, id |-> id, e |-> e, stale |-> w] :
                  o \in {"param", "var"}, d \in 1..MaxDepth, id \in ScopeIds,
                  e \in SelfExprs, w \in StaleWords}
    /\ res = [stage |-> "input"]

\* the statements before the declaration are lowered and their code runs
LowerOuter ==
    /\ res.stage = "input"
    /\ LET c == Nested(OuterBinding(arg.outer), arg.depth)
       IN  res' = [stage |-> "nested", c |-> ClearOut(c),
                   m |-> Exec(MachineAtF, SelectSeq(c.out, IsInstr), 1)]
    /\ UNCHANGED arg

\* DeclareAssignStatement.CodeGen, and its code runs: the SUB of
\* DeclareVar first, which leaves the word as it was
LowerDeclare ==
    /\ res.stage = "nested"
    /\ LET c == DeclareAssignStatement(res.c,
                                       [k |-> "declare", id |-> arg.id,
                                        rhs |-> arg.e])
           is == SelectSeq(c.out, IsInstr)
       IN  res' = [stage |-> "declared", c |-> c,
                   m |-> Exec(Stale(Exec(res.m, SubSeq(is, 1, 1), 1), arg.stale),
                              SubSeq(is, 2, Len(is)), 1)]
    /\ UNCHANGED arg

(***************************************************************************)
(* The three machines share one state: each leaves the variables of the    *)
(* others at rest.                                                         *)
(***************************************************************************)
BodyAtRest ==
    /\ alloc = <<>>
    /\ ctl = <<>>
    /\ out = <<>>
    /\ last = <<>>
    /\ sp = 0
    /\ path = ""
    /\ phase = "rest"

ProgAtRest ==
    /\ ast = <<>>
    /\ code = <<>>
    /\ pc = <<>>
    /\ msgs = <<>>
    /\ strPool = <<>>
    /\ fsPool = {}
    /\ driver = "rest"
    /\ fch = 0
    /\ iter = {}
    /\ builtin = NoBuiltin
    /\ txtInstr = <<>>
    /\ ch = <<>>
    /\ calls = <<>>
    /\ made = <<>>
    /\ prev = <<>>

PoolAtRest ==
    /\ callers = <<>>
    /\ mutex = 0

\* everything but strPool, which the concurrent lookups act on
varsProgButPool == <<ast, code, pc, msgs, fsPool, driver, fch, iter, builtin,
                     txtInstr, ch, calls, made, prev>>

(***************************************************************************)
(* Properties of the lowering of a body.                                   *)
(***************************************************************************)
\* the statements without a body
SimpleKinds == {"skip", "declare", "assign", "read", "free", "return", "exit",
                "print", "println"}

\* stackSize where the body begins
BodyBase == AllocOf(FunctionOpen(BodyFunc)).stackSize

\* C1: every register a statement acquires it releases again, so that once
\* a statement has been lowered the register list and the usage counts are
\* what they were before it
C1_RegistersRestored ==
    (phase = "body" /\ last.kind \in SimpleKinds)
        => /\ alloc.regs = last.pre.regs
           /\ alloc.usage = last.pre.usage

\* C2: a statement leaves stackSize where it found it, except a
\* declaration, which leaves it 4 higher; so too after repeated free
C2_StackSizeNeutral ==
    (phase = "body" /\ last.kind \in SimpleKinds)
        => alloc.stackSize
             = last.pre.stackSize + (IF last.kind = "declare" THEN 4 ELSE 0)

\* C3: at every executed instruction that addresses a variable through a
\* resolved offset, stackSize is the distance sp has been lowered
C3_StackSizeInSync ==
    \A k \in 1..Len(out) :
        (IsInstr(out[k]) /\ last.live[k] /\ UsesOffset(out[k]))
            => last.ss[k] - BodyBase = last.spAt[k]

\* the instruction enters the epilogue: the branch of a return, or the
\* label itself when the body ends without one
EntersReturn(i) ==
    \/ i.op = "B" /\ i.l = BodyFunc.ident \o "_return"
    \/ i = LABEL(BodyFunc.ident \o "_return")

\* C18: wherever the path comes to <name>_return, by a return at any depth
\* or by the end of the body, sp is what it was when the body began
C18_ReturnSeesEntrySp ==
    \A k \in 1..Len(out) :
        (IsInstr(out[k]) /\ last.live[k] /\ EntersReturn(out[k]))
            => last.spAt[k] = 0

\* the step sends the label where the paths through an if statement (end)
\* or through a while statement (cond, and past it do or end) meet again
Rejoins ==
    /\ phase = "body"
    /\ Head(ctl).kind \in {"else", "while"}
    /\ ctl' = Tail(ctl)

\* C26: the paths that come to a shared label of an if or while statement
\* come to it with one sp: whichever arm the path took, and whether or not
\* it went through the loop body, sp past the statement is what it was
\* where the path came to the statement
C26_PathsMeetWithOneSp ==
    [][(Rejoins /\ path' = "on") => sp' = Head(ctl).spIn]_varsBody

(***************************************************************************)
(* Properties of the whole program's output.                               *)
(***************************************************************************)
\* the positions of ch that hold the label id
LabelsAt(id) == {k \in 1..Len(ch) : ch[k] = LABEL(id)}

\* where the text section begins in ch
TextAt == CHOOSE k \in 1..Len(ch) : ch[k] = TextSeg

\* C4: no two LABEL instructions of the output carry the same identifier,
\* whatever name a procedure has
C4_LabelsUnique ==
    driver = "done"
        => \A j, k \in 1..Len(ch) :
              (j < k /\ ch[j].op = "LABEL" /\ ch[k].op = "LABEL")
                  => ch[j].l # ch[k].l

\* C5: every BL to a runtime helper in the output has exactly one LABEL of
\* that helper in the output
C5_HelperCallsResolved ==
    driver = "done"
        => \A k \in 1..Len(ch) :
              (ch[k].op = "BL" /\ ch[k].l \in HelperLabels)
                  => Cardinality(LabelsAt(ch[k].l)) = 1

\* how often the generator of helper h was run
TimesMade(h) == Cardinality({k \in 1..Len(made) : made[k] = h})

\* C6: once the output is complete, every helper in the helper pool,
\* whether a procedure added it or a helper's generator did during the
\* emission of the helpers, has had its body emitted exactly once
C6_HelpersEmittedOnce ==
    driver = "done"
        => \A h \in fsPool : TimesMade(h) = 1 /\ LabelsAt(h) # {}

\* the data entry for call c stands at position j of ch
EntryAt(j, c) ==
    /\ ch[j] = LABEL(c.label)
    /\ ch[j + 1] = DataWord(c.data.len)
    /\ ch[j + 2] = DataAscii(c.data.str)

\* C7: for every LDR reg, =msg_i in the text section, a lookup returned
\* msg_i, and the data section holds exactly one entry msg_i, whose word
\* and bytes are what that lookup stored for the string it was passed
C7_StringsBacked ==
    driver = "done"
        => \A k \in 1..Len(ch) :
              ch[k].op = "LDRL"
                  => /\ \E c \in 1..Len(calls) : calls[c].label = ch[k].l
                     /\ \A c \in 1..Len(calls) :
                           calls[c].label = ch[k].l
                               => /\ \E j \in 2..(TextAt - 3) : EntryAt(j, calls[c])
                                  /\ Cardinality({j \in LabelsAt(ch[k].l) : j < TextAt}) = 1

\* a string literal's load and a helper's load are both in the output
C7_Witness ==
    /\ driver = "done"
    /\ \E k \in 1..Len(calls) : calls[k].data = DataString32(<<"a", "\\", "n">>)
    /\ \E k \in 1..Len(calls) : calls[k].data = DataString8(mTrue)
    /\ Cardinality({k \in 1..Len(ch) : ch[k].op = "LDRL"}) >= 3

\* an instruction without the label a lookup gave it
Shape(i) == IF i.op = "LDRL" THEN [i EXCEPT !.l = ""] ELSE i

\* the instructions a goroutine sends, in the order it sends them
Sent(script) == [k \in 1..Len(SelectSeq(script, IsInstr)) |->
                    Shape(SelectSeq(script, IsInstr)[k])]

\* the instructions of the procedures ps, one procedure after the other
RECURSIVE ProcedureText(_)
ProcedureText(ps) ==
    IF ps = <<>> THEN <<>>
    ELSE Sent(FunctionDefCodeGen(Head(ps)).out) \o ProcedureText(Tail(ps))

\* s is the beginning of t
Prefix(s, t) == Len(s) <= Len(t) /\ s = SubSeq(t, 1, Len(s))

\* C9: while the driver collects the procedures, what it has buffered after
\* .text and .global main is the beginning of the instructions of the
\* functions in source order and of main after them, each procedure's in
\* one piece and in the order the procedure sent them; in the output the
\* whole of it stands after .text and .global main
C9_ProceduresInOrder ==
    /\ driver = "procs"
          => /\ SubSeq(txtInstr, 1, 2) = <<TextSeg, Global("main")>>
             /\ Prefix(Sent(SubSeq(txtInstr, 3, Len(txtInstr))),
                       ProcedureText(Procedures(ast)))
    /\ driver = "done"
          => /\ ch[TextAt + 1] = Global("main")
             /\ Len(ch) >= TextAt + 1 + Len(ProcedureText(Procedures(ast)))
             /\ Sent(SubSeq(ch, TextAt + 2,
                            TextAt + 1 + Len(ProcedureText(Procedures(ast)))))
                  = ProcedureText(Procedures(ast))

\* a program with two functions has been compiled
C9_Witness ==
    /\ driver = "done"
    /\ Len(ast.functions) = 2

\* C10: two runs on the same program send the same sequence
C10_Deterministic ==
    (driver = "done" /\ prev # <<>>) => ch = prev

\* the lookups of the procedures ps, one procedure after the other
RECURSIVE LookupsOf(_)
LookupsOf(ps) ==
    IF ps = <<>> THEN <<>>
    ELSE SelectSeq(FunctionDefCodeGen(Head(ps)).out, IsLookup)
             \o LookupsOf(Tail(ps))

\* the labels and strings that the lookups ops give when they are made one
\* after the other on the pool, from lookup k on
RECURSIVE CallsInOrder(_, _, _, _)
CallsInOrder(ops, k, pool, cs) ==
    IF k > Len(ops) THEN cs
    ELSE CallsInOrder(ops, k + 1, StrPoolAfter(pool, ops[k]),
                      CallsAfter(cs, pool, ops[k]))

SourceOrderCalls == CallsInOrder(LookupsOf(Procedures(ast)), 1, <<>>, <<>>)

\* C29: a procedure has got past its first send, and so may have used a
\* pool, only when every procedure before it in source order has sent all
\* it had to send; the lookups of the procedures are therefore made, under
\* every schedule, in source order, and each string literal gets the index
\* it has when the procedures are lowered one after the other
C29_PoolsInSourceOrder ==
    /\ \A i \in 1..Len(code) :
          pc[i] > 1 => \A j \in 1..(i - 1) : pc[j] > Len(code[j])
    /\ driver \in {"start", "procs"} => Prefix(calls, SourceOrderCalls)
    /\ driver \in {"builtins", "text", "done"}
          => Prefix(SourceOrderCalls, calls)
    /\ \A k \in 1..Len(SourceOrderCalls) :
          SourceOrderCalls[k].label = MsgLabel(k - 1)

\* a function and main each hold a string literal, and main is sending
C29_Witness ==
    /\ ast = ProgStrings
    /\ driver = "procs"
    /\ fch = 2
    /\ Len(calls) = 2
    /\ calls[1].data = DataString32(<<"b">>)
    /\ calls[2].label = MsgLabel(1)

\* the directives of the data section
DataOps == {".data", ".word", ".ascii"}

\* the number of positions the data section takes in ch
DataLen == 1 + 3 * PoolLen(strPool)

\* C11: nothing but .data is sent before the strings; the strings follow
\* .data as the triples LABEL msg_i, DataWord, DataAscii for i = 0..N-1 in
\* increasing order; .text, .global main and the buffered instructions come
\* only after the last triple, and no data directive comes after .text
C11_DataThenText ==
    /\ driver \in {"procs", "builtins"} => ch = <<DataSeg>>
    /\ driver \in {"text", "done"}
          => /\ Len(ch) >= DataLen
             /\ ch[1] = DataSeg
             /\ \A i \in 0..(PoolLen(strPool) - 1) :
                   /\ ch[2 + 3 * i] = LABEL(MsgLabel(i))
                   /\ ch[3 + 3 * i] = DataWord(strPool[i].len)
                   /\ ch[4 + 3 * i] = DataAscii(strPool[i].str)
    /\ driver = "text" => Len(ch) = DataLen
    /\ driver = "done"
          => /\ Len(ch) >= DataLen + 2
             /\ ch[DataLen + 1] = TextSeg
             /\ ch[DataLen + 2] = Global("main")
             /\ SubSeq(ch, DataLen + 1, Len(ch)) = txtInstr
             /\ \A k \in (DataLen + 1)..Len(ch) : ch[k].op \notin DataOps

\* the output is complete, with at least two strings and a helper body
C11_Witness ==
    /\ driver = "done"
    /\ PoolLen(strPool) >= 2
    /\ made # <<>>

\* every goroutine has sent all it had to send and closed its channel
AllClosed ==
    /\ \A i \in 1..Len(code) : pc[i] > Len(code[i])
    /\ builtin.name = ""

\* C12: with fair scheduling the driver eventually has sent everything and
\* closed ch, every producer having run to its end: no goroutine stays
\* blocked on a channel or on a pool
C12_Delivers == <>(driver = "done" /\ AllClosed)

\* the output is complete after three procedures and a helper that was
\* added during the range
C12_Witness ==
    /\ driver = "done"
    /\ AllClosed
    /\ Len(code) = 3
    /\ \E k \in 1..Len(made) : made[k] = mThrowRuntimeErr

(***************************************************************************)
(* Properties of the allocator.                                            *)
(***************************************************************************)
\* r is the register of allocator a acquired last among those still held
LastHeld(a, r) == r = a.regs[Len(a.regs)] /\ a.usage[r] > 0

\* C13: a FreeReg of a register that is not the one acquired last and
\* still held aborts lowering: it sends nothing and leaves the usage
\* counts, the register list and stackSize as they were
C13_FreeRegFailsFast ==
    (res.kind = "free" /\ ~LastHeld(res.pre, res.r))
        => /\ res.post.panic
           /\ res.post.out = <<>>
           /\ AllocOf(res.post) = res.pre

(***************************************************************************)
(* Properties of the lowering of an expression.                            *)
(***************************************************************************)
\* C14: the weight of an expression is the greatest number of registers
\* held at once while it is lowered, its target counted
C14_WeightIsPeak ==
    res.stage = "lowered"
        => res.peak - (arg.held - 1) = Weight(arg.e)

\* the value the code has left in the target
Result == res.m.reg[RegName(TargetOf(Taken(arg.held)))]

\* C15: for a comparison, in either order of evaluation, CMP compares the
\* value of lhs with the value of rhs, so that the target ends as 1 when
\* lhs <op> rhs holds and as 0 when it does not
C15_ComparisonResult ==
    (res.stage = "run" /\ arg.held = 1 /\ arg.e.k \in CmpOps /\ res.m.ok)
        => Result = Eval(arg.e)

\* C16: for -, / and %, whichever operand is evaluated first, the target
\* ends as lhs - rhs, as the quotient of lhs by rhs and as the remainder
\* of lhs by rhs (operands that need a second register themselves are
\* taken only where no register is spilled, so that the operator alone is
\* measured)
C16_OperandOrder ==
    (/\ res.stage = "run"
     /\ arg.e.k \in {"sub", "div", "mod"}
     /\ arg.held = 1 \/ (arg.e.l \in Light /\ arg.e.r \in Light)
     /\ res.m.ok)
        => Result = Eval(arg.e)

\* the machine as the callee finds it at the BL
AtCall == res.m.calls[1]

\* argument i (from 1) is where the callee expects it: the first four in
\* r0..r3, the others on the stack from [sp] upwards
ArgumentPassed(i) ==
    IF i <= 4
    THEN AtCall.reg[RegName(i - 1)] = Eval(arg.e.args[i])
    ELSE /\ Len(AtCall.stack) - (i - 5) >= 1
         /\ AtCall.stack[Len(AtCall.stack) - (i - 5)] = Eval(arg.e.args[i])

\* C17: at the BL of a call every argument is where the callee expects it,
\* and after the call sequence sp, stackSize and every register that was
\* held, but the target, are as they were before it, also when GetReg has
\* to spill
C17_CallPassesArguments ==
    res.stage = "called"
        => /\ res.m.ok
           /\ Len(res.m.calls) = 1
           /\ \A i \in 1..Len(arg.e.args) : ArgumentPassed(i)
           /\ Len(res.m.stack) = Len(MachineAt(arg.held).stack)
           /\ res.post.stackSize = Taken(arg.held).stackSize
           /\ \A n \in GenRegs :
                  (Taken(arg.held).usage[n] > 0 /\ n # TargetOf(Taken(arg.held)))
                      => res.m.reg[RegName(n)] = MachineAt(arg.held).reg[RegName(n)]

\* the stages in the order the claim gives them
StageOrder ==
    <<"parse", "ast", "semantic">>
    \o (IF arg.optimise THEN <<"optimise">> ELSE <<>>)
    \o <<"codegen">>

\* the status the claim gives for the first stage that fails
ExpectedExit ==
    CASE arg.args # "file" -> 1
      [] ~arg.readable -> 2
      [] ~arg.syntax \/ ~arg.tree \/ ~arg.paths -> 100
      [] ~arg.types -> 200
      [] OTHER -> 0

\* C19: the driver runs parse, AST construction, semantic analysis, the
\* optional optimisation and code generation in this order, stops at the
\* first stage that fails with status 1 (bad arguments), 2 (input not
\* readable), 100 (syntax), 200 (semantics) or 0 (success), and writes no
\* assembly when a stage before code generation has failed
C19_DriverExitCodes ==
    /\ Len(res.ran) <= Len(StageOrder)
    /\ res.ran = SubSeq(StageOrder, 1, Len(res.ran))
    /\ (res.at = "exited" /\ (arg.printAssembly \/ arg.creatable))
           => res.exit = ExpectedExit
    /\ (res.written /\ res.at = "exited") => ExpectedExit = 0

\* a plain character or an escape sequence as the assembler reads it
RECURSIVE Text(_)
Text(form) == IF form = <<>> THEN "" ELSE Head(form) \o Text(Tail(form))

\* every source character followed by three zero bytes
RECURSIVE FourBytesEach(_)
FourBytesEach(cs) ==
    IF cs = <<>> THEN ""
    ELSE Text(Head(cs)) \o "\\000\\000\\000" \o FourBytesEach(Tail(cs))

\* C20: Lookup32 stores as length the number of source characters, an
\* escape sequence counting as one, and as payload every source character
\* (or its escape sequence) followed by three zero bytes
C20_WideString ==
    res.stage = "stored"
        => /\ res.pool[0].len = Len(arg.chars)
           /\ res.pool[0].str = FourBytesEach(arg.chars)

(***************************************************************************)
(* Properties of the allocator under the discipline of lowering.           *)
(***************************************************************************)
\* C21: GetReg followed at once by FreeReg of the register returned leaves
\* the register list, the usage counts and stackSize as they were, and
\* sends PUSH {r}, POP {r} when the head register was held and nothing
\* when it was not
C21_GetThenFreeRestores ==
    res.kind = "pair"
        => /\ arg.alloc = res.pre
           /\ res.out = IF res.pre.usage[Head(res.pre.regs)] > 0
                        THEN <<PUSH(<<RegName(Head(res.pre.regs))>>),
                               POP(<<RegName(Head(res.pre.regs))>>)>>
                        ELSE <<>>

C21_Witness ==
    /\ res.kind = "pair"
    /\ res.out # <<>>
    /\ arg.work # <<>>

\* the list is <<4, ..., 11>> begun at some register and wrapped around
IsRotation(regs) ==
    /\ Len(regs) = 8
    /\ \E k \in 0..7 : \A j \in 1..8 : regs[j] = 4 + ((k + j - 1) % 8)

AllHeld(a) == \A r \in 4..11 : a.usage[r] > 0

\* C27: in every state of the allocator that lowering reaches the register
\* list is a rotation of r4..r11, no usage count is negative, and GetReg
\* sends a spill PUSH, of the register it hands out, exactly when all
\* eight registers are held: with a register free it hands out a free one
\* and sends nothing
C27_SpillsWhenAllHeld ==
    /\ IsRotation(arg.alloc.regs)
    /\ \A r \in 0..11 : arg.alloc.usage[r] >= 0
    /\ res.kind = "get"
          => /\ res.out = IF AllHeld(res.pre)
                          THEN <<PUSH(<<RegName(LastTaken)>>)>> ELSE <<>>
             /\ LastTaken = Head(res.pre.regs)
             /\ ~AllHeld(res.pre) => res.pre.usage[LastTaken] = 0
             /\ arg.alloc.usage[LastTaken] = res.pre.usage[LastTaken] + 1

\* GetReg has spilled with all eight registers held, seven of them left
\* held by earlier statements and one taken by this one
C27_Witness ==
    /\ res.kind = "get"
    /\ AllHeld(res.pre)
    /\ res.out # <<>>
    /\ Len(arg.work) = 2
    /\ arg.alloc.regs # CreateRegAllocator.regs

\* the registers instruction i names
Names(i) == {i.r[j] : j \in 1..Len(i.r)}

\* C28: every instruction of an expression's code that names an allocator
\* register, the PUSH and POP of a spill aside, names the target or a
\* register the expression acquired with GetReg and has not yet released
\* with FreeReg: the combine of a binary operator is sent before its
\* second register is released, and nothing writes a released register
C28_NamedWhileHeld ==
    (res.stage = "lowered" /\ ~res.panic)
        => \A k \in 1..Len(res.out) : \A r \in GenRegs :
              (/\ res.out[k].op \notin {"PUSH", "POP"}
               /\ RegName(r) \in Names(res.out[k]))
                  => \/ r = TargetOf(Taken(arg.held))
                     \/ r \in res.own[k]

\* the scope, counted from the outermost, of the innermost binding of x
RECURSIVE BindingLevel(_, _)
BindingLevel(stack, x) ==
    IF x \in DOMAIN stack[1] THEN Len(stack) ELSE BindingLevel(Tail(stack), x)

\* the word of the stack that ResolveVar(x) addresses, counted from the
\* first word reserved
SlotOf(x) == Len(arg.mem) - (ResolveVar(arg.alloc, x) \div 4)

RECURSIVE SumOfImmediates(_)
SumOfImmediates(is) ==
    IF is = <<>> THEN 0 ELSE Head(is).n + SumOfImmediates(Tail(is))

\* C23: CleanupScope of a scope of n variables sends only ADD sp, sp, #imm
\* with every imm in 1..255 and the sum of them 4n (nothing for n = 0),
\* lowers stackSize by 4n and removes the innermost scope alone
C23_CleanupReclaims ==
    res.stage = "cleaned"
        => /\ \A k \in 1..Len(res.out) :
                 /\ res.out[k] = ADDI("sp", "sp", res.out[k].n)
                 /\ res.out[k].n \in 1..255
           /\ SumOfImmediates(res.out) = 4 * arg.n
           /\ res.post.stackSize = arg.alloc.stackSize - 4 * arg.n
           /\ res.post.stack = Tail(arg.alloc.stack)
           /\ res.post.regs = arg.alloc.regs
           /\ res.post.usage = arg.alloc.usage

C23_Witness ==
    /\ res.stage = "cleaned"
    /\ Len(res.out) >= 3
    /\ res.post.stack[1] # EmptyScope

RECURSIVE HasParen(_)
HasParen(e) ==
    \/ e.k = "paren"
    \/ e.k \in UnaryOps /\ HasParen(e.e)
    \/ e.k \in BinaryOps /\ (HasParen(e.l) \/ HasParen(e.r))

\* C25: for a token stream with balanced parentheses no expression on the
\* expression stack, and so the tree parseExpr returns, holds an ExprParen:
\* every one pushed is dropped at its closing parenthesis, and the weight
\* -1 enters no comparison of weights
C25_NoParenInTree ==
    /\ \A k \in 1..Len(res.p.stack) : ~HasParen(res.p.stack[k])
    /\ res.stage = "parsed"
           => /\ ~HasParen(res.tree)
              /\ Weight(res.tree) >= 1
              /\ res.p.opstack = <<>>

C25_Witness ==
    /\ res.stage = "parsed"
    /\ arg.closed >= 2
    /\ res.tree.k \in BinaryOps

\* C30: when `int x = e` is lowered in a scope nested in one that binds x,
\* the x of e is the enclosing x: the word of the new x ends as the value
\* of e with x the value of the enclosing binding, whatever the word held
\* before
C30_InitialiserSeesOuter ==
    res.stage = "declared"
        => /\ res.m.ok
           /\ HasSlot(res.m, ResolveVar(res.c, arg.id))
           /\ res.m.stack[SlotAt(res.m, ResolveVar(res.c, arg.id))] = Eval(arg.e)

(***************************************************************************)
(* Properties of concurrent lookups.                                       *)
(***************************************************************************)
\* the callers that have stored their string
HaveStored == {t \in DOMAIN callers : callers[t].at \in {"return", "done"}}

\* C8: however the lookups interleave, no two calls return the same
\* label, the indices given out are 0..N-1 without a gap, and what a call
\* stored under its index stays there
C8_PoolIndices ==
    /\ \A t, u \in DOMAIN callers :
          (t # u /\ callers[t].at = "done" /\ callers[u].at = "done")
              => callers[t].ret # callers[u].ret
    /\ DOMAIN strPool = 0..(Cardinality(HaveStored) - 1)
    /\ {callers[t].l : t \in HaveStored} = DOMAIN strPool
    /\ \A t \in HaveStored : strPool[callers[t].l] = Stored(callers[t].op)

\* every caller has returned, and both kinds of lookup were called
C8_Witness ==
    /\ callers # <<>>
    /\ \A t \in DOMAIN callers : callers[t].at = "done"
    /\ \E t, u \in DOMAIN callers : callers[t].op.op # callers[u].op.op

vars == <<varsBody, varsProg, varsPool, varsUnit>>

Init == InitBody /\ ProgAtRest /\ PoolAtRest /\ UnitAtRest

Next ==
    \/ LowerSimple /\ UNCHANGED <<varsProg, varsPool, varsUnit>>
    \/ BlockBegin /\ UNCHANGED <<varsProg, varsPool, varsUnit>>
    \/ BlockEnd /\ UNCHANGED <<varsProg, varsPool, varsUnit>>
    \/ IfBegin /\ UNCHANGED <<varsProg, varsPool, varsUnit>>
    \/ IfMiddle /\ UNCHANGED <<varsProg, varsPool, varsUnit>>
    \/ IfEnd /\ UNCHANGED <<varsProg, varsPool, varsUnit>>
    \/ WhileBegin /\ UNCHANGED <<varsProg, varsPool, varsUnit>>
    \/ WhileEnd /\ UNCHANGED <<varsProg, varsPool, varsUnit>>
    \/ FunctionEnd /\ UNCHANGED <<varsProg, varsPool, varsUnit>>

Spec == Init /\ [][Next]_vars

InitProg == BodyAtRest /\ PoolAtRest /\ UnitAtRest /\ \E a \in Programs : StartProg(a)

NextProg ==
    \/ ProcPool /\ UNCHANGED <<varsBody, varsPool, varsUnit>>
    \/ DriverStart /\ UNCHANGED <<varsBody, varsPool, varsUnit>>
    \/ ProcRecv /\ UNCHANGED <<varsBody, varsPool, varsUnit>>
    \/ ProcClosed /\ UNCHANGED <<varsBody, varsPool, varsUnit>>
    \/ BuiltinStart /\ UNCHANGED <<varsBody, varsPool, varsUnit>>
    \/ BuiltinPool /\ UNCHANGED <<varsBody, varsPool, varsUnit>>
    \/ BuiltinRecv /\ UNCHANGED <<varsBody, varsPool, varsUnit>>
    \/ BuiltinClosed /\ UNCHANGED <<varsBody, varsPool, varsUnit>>
    \/ SendData /\ UNCHANGED <<varsBody, varsPool, varsUnit>>
    \/ SendText /\ UNCHANGED <<varsBody, varsPool, varsUnit>>
    \/ Rerun /\ UNCHANGED <<varsBody, varsPool, varsUnit>>

SpecProg == InitProg /\ [][NextProg]_vars

\* the scheduler lets no step wait forever
SpecProgFair == SpecProg /\ WF_vars(NextProg)

InitLookups == BodyAtRest /\ ProgAtRest /\ UnitAtRest /\ InitPool

NextLookups ==
    \E t \in 1..NumCallers :
        \/ Lock(t) /\ UNCHANGED <<varsBody, varsProgButPool, varsUnit>>
        \/ ReadLen(t) /\ UNCHANGED <<varsBody, varsProgButPool, varsUnit>>
        \/ Put(t) /\ UNCHANGED <<varsBody, varsProgButPool, varsUnit>>
        \/ Return(t) /\ UNCHANGED <<varsBody, varsProgButPool, varsUnit>>

SpecPool == InitLookups /\ [][NextLookups]_vars

InitCalls == BodyAtRest /\ ProgAtRest /\ PoolAtRest /\ InitAlloc

NextCalls ==
    \/ CallGetReg /\ UNCHANGED <<varsBody, varsProg, varsPool>>
    \/ CallFreeReg /\ UNCHANGED <<varsBody, varsProg, varsPool>>

SpecAlloc == InitCalls /\ [][NextCalls]_vars

InitLowering == BodyAtRest /\ ProgAtRest /\ PoolAtRest /\ InitExpr

NextLowering ==
    \/ LowerExpr /\ UNCHANGED <<varsBody, varsProg, varsPool>>
    \/ RunCode /\ UNCHANGED <<varsBody, varsProg, varsPool>>

SpecExpr == InitLowering /\ [][NextLowering]_vars

InitArguments == BodyAtRest /\ ProgAtRest /\ PoolAtRest /\ InitCall

NextArguments ==
    \/ LowerCall /\ UNCHANGED <<varsBody, varsProg, varsPool>>
    \/ RunCall /\ UNCHANGED <<varsBody, varsProg, varsPool>>

SpecCall == InitArguments /\ [][NextArguments]_vars

InitDriver == BodyAtRest /\ ProgAtRest /\ PoolAtRest /\ InitMain

NextDriver ==
    \/ FlagsParse /\ UNCHANGED <<varsBody, varsProg, varsPool>>
    \/ Include /\ UNCHANGED <<varsBody, varsProg, varsPool>>
    \/ parseInput /\ UNCHANGED <<varsBody, varsProg, varsPool>>
    \/ generateASTFromWACC /\ UNCHANGED <<varsBody, varsProg, varsPool>>
    \/ semanticAnalysis /\ UNCHANGED <<varsBody, varsProg, varsPool>>
    \/ optimise /\ UNCHANGED <<varsBody, varsProg, varsPool>>
    \/ codeGeneration /\ UNCHANGED <<varsBody, varsProg, varsPool>>
    \/ Finish /\ UNCHANGED <<varsBody, varsProg, varsPool>>

SpecMain == InitDriver /\ [][NextDriver]_vars

InitLiteral == BodyAtRest /\ ProgAtRest /\ PoolAtRest /\ InitString

NextLiteral == LookupString /\ UNCHANGED <<varsBody, varsProg, varsPool>>

SpecString == InitLiteral /\ [][NextLiteral]_vars

InitDiscipline == BodyAtRest /\ ProgAtRest /\ PoolAtRest /\ InitScopes

NextDiscipline ==
    \/ ScopeGetReg /\ UNCHANGED <<varsBody, varsProg, varsPool>>
    \/ ScopeFreeReg /\ UNCHANGED <<varsBody, varsProg, varsPool>>
    \/ GetThenFree /\ UNCHANGED <<varsBody, varsProg, varsPool>>
    \/ ScopePushArg /\ UNCHANGED <<varsBody, varsProg, varsPool>>
    \/ ScopeDropArgs /\ UNCHANGED <<varsBody, varsProg, varsPool>>
    \/ ScopeStart /\ UNCHANGED <<varsBody, varsProg, varsPool>>
    \/ ScopeDeclare /\ UNCHANGED <<varsBody, varsProg, varsPool>>
    \/ ScopeCleanup /\ UNCHANGED <<varsBody, varsProg, varsPool>>

SpecScopes == InitDiscipline /\ [][NextDiscipline]_vars

InitReclaim == BodyAtRest /\ ProgAtRest /\ PoolAtRest /\ InitCleanup

NextReclaim == CleanupOnce /\ UNCHANGED <<varsBody, varsProg, varsPool>>

SpecCleanup == InitReclaim /\ [][NextReclaim]_vars

InitEntry == BodyAtRest /\ ProgAtRest /\ PoolAtRest /\ InitParams

NextEntry ==
    \/ EnterProcedure /\ UNCHANGED <<varsBody, varsProg, varsPool>>
    \/ BodyDeclares /\ UNCHANGED <<varsBody, varsProg, varsPool>>
    \/ BodyGetReg /\ UNCHANGED <<varsBody, varsProg, varsPool>>
    \/ BodyHoldsAll /\ UNCHANGED <<varsBody, varsProg, varsPool>>
    \/ BodyStartScope /\ UNCHANGED <<varsBody, varsProg, varsPool>>

SpecParams == InitEntry /\ [][NextEntry]_vars

InitTokens == BodyAtRest /\ ProgAtRest /\ PoolAtRest /\ InitParse

NextTokens ==
    \/ TokenOperand /\ UNCHANGED <<varsBody, varsProg, varsPool>>
    \/ TokenOperator /\ UNCHANGED <<varsBody, varsProg, varsPool>>
    \/ TokenLPar /\ UNCHANGED <<varsBody, varsProg, varsPool>>
    \/ TokenRPar /\ UNCHANGED <<varsBody, varsProg, varsPool>>
    \/ EndOfTokens /\ UNCHANGED <<varsBody, varsProg, varsPool>>

SpecParse == InitTokens /\ [][NextTokens]_vars

InitShadow == BodyAtRest /\ ProgAtRest /\ PoolAtRest /\ InitDeclare

NextShadow ==
    \/ LowerOuter /\ UNCHANGED <<varsBody, varsProg, varsPool>>
    \/ LowerDeclare /\ UNCHANGED <<varsBody, varsProg, varsPool>>

SpecDeclare == InitShadow /\ [][NextShadow]_vars

====
